---- MODULE Spec2Model ----
(***************************************************************************)
(* Verification model of mydocs-mcp.                                       *)
(*                                                                         *)
(* The subsystems are modelled over one variable list:                     *)
(*   watcher  src/watcher/event_handler.py, src/watcher/file_watcher.py    *)
(*            SpecDebounce (per-path debounce), SpecBatch (batch window),  *)
(*            SpecDefault (the mode of the default configuration),         *)
(*            SpecStop (a watcher in either mode that is stopped),         *)
(*            SpecDispatch (what _handle_file_event does for an event)     *)
(*   store    src/database/{connection,queries,database_manager}.py        *)
(*            SpecStore (any two calls), SpecDeleteRace, SpecIngestRace,   *)
(*            SpecCreateRace and SpecSearchRace (scripted clients on the   *)
(*            pooled connection), SpecPool (the ConnectionManager)         *)
(*   schema   src/database/{migrations,models,connection}.py               *)
(*            SpecMigrate (connects, migration runs and restarts)          *)
(*   scoring  src/database/{models,database_manager}.py                    *)
(*            SpecScoring (keyword extraction and relevance)               *)
(*   search   src/tools/searchDocuments.py, src/database/queries.py        *)
(*            SpecSearch (searches, ingests and deletes with the cache)    *)
(*   tools    src/server.py, src/tool_registry.py, src/tools/base.py       *)
(*            SpecTools (one tool call from the server or the watcher)     *)
(*   server   src/server.py, src/tools/registration.py                     *)
(*            SpecServer (requests before initialization, and stop)        *)
(*   execute  src/tools/base.py                                            *)
(*            SpecExecute (BaseMCPTool.execute and its counters)           *)
(*   health   src/watcher/file_watcher.py                                  *)
(*            SpecHealth (start, stop, events and get_health_status)       *)
(*   intake   src/watcher/event_handler.py                                 *)
(*            SpecIntake (events from either thread, fair scheduling)      *)
(*   ingest   src/tools/indexDocument.py, src/database/database_manager.py *)
(*            SpecIngest (file writes, indexDocument calls and searches)   *)
(* A specification leaves the variables of the other subsystems unchanged. *)
(***************************************************************************)
EXTENDS Integers, Sequences, FiniteSets, TLC

VARIABLES
    \* ---- watcher: AsyncFileSystemEventHandler ----
    batch_processing,   \* config.batch_processing, fixed at construction
    now,                \* the event loop's clock, in ticks of 250 ms
    pending_events,     \* self._pending_events : path -> FileEvent
    debounce_tasks,     \* self._debounce_tasks : path -> task
    tasks,              \* the asyncio tasks running _debounced_process
    batch_events,       \* self._batch_events, an insertion-ordered dict
    batch_task,         \* self._batch_task, the task running _process_batch
    processed,          \* self._event_counts['processed']
    accepted,           \* every event handed to _handle_event_async, in order
    dispatched,         \* every invocation of event_callback, in order
    passLog,            \* one record per drain of _batch_events
    \* ---- store: DatabaseConnection and the coroutines using it ----
    db,                 \* the database as the pooled connection sees it
    saved,              \* the database as of BEGIN: what ROLLBACK restores
    in_txn,             \* the connection has an open transaction
    txn_owner,          \* the call whose BEGIN opened it
    calls,              \* the coroutines running against the store
    queue,              \* the connection thread's queue of operations
    script,             \* per call, the requests its client may make
    \* ---- scoring: DocumentManager._index_document_keywords ----
    text,               \* the content of the document being indexed
    search_entries,     \* the SearchIndex entries built for it
    \* ---- search: SearchDocumentsTool and the search_cache table ----
    clock,              \* UTC time, in ticks
    tz,                 \* the host's offset from UTC, in ticks
    cache,              \* the search_cache table with its timestamps
    response,           \* the data of the latest searchDocuments response
    \* ---- FileWatcher.stop ----
    stop,               \* where stop() is, and what was pending at its call
    \* ---- tool calls: server, ToolRegistry, BaseMCPTool ----
    invocation,         \* the tool call in progress and its outcome
    \* ---- FileWatcher._handle_file_event ----
    stats,              \* self.stats of the FileWatcher
    handled,            \* the events given to _handle_file_event: how many,
                        \* whether one failed, and the latest of them
    \* ---- MigrationManager and the schema of the database file ----
    database_file,      \* the file: schema objects, the rows of
                        \* schema_migrations, PRAGMA user_version
    db_connection,      \* DatabaseConnection: _connection, _is_initialized
    migration,          \* the migrate_to_* call in progress or just ended
    \* ---- ConnectionManager: the connection pool ----
    connection_manager, \* the global _connection_manager
    pool_users,         \* per caller, the file whose pooled connection it
                        \* has been given and is using
    \* ---- MyDocsMCPServer: tool initialization and stop ----
    server,             \* _tools_registered, the registry, file_watcher,
                        \* and where stop() is
    requests,           \* the call_tool requests being handled
    \* ---- BaseMCPTool: the counters of one tool ----
    metrics,            \* _execution_count, _error_count, and the execute()
                        \* call in progress
    \* ---- FileWatcher: what get_health_status reads and answers ----
    health,             \* is_watching, the observer thread, the watched
                        \* directories that are missing, the last answer
    \* ---- watcher intake: _queue_event ----
    unqueued,           \* the events that passed the filter and for which
                        \* _queue_event found no event loop
    \* ---- IndexDocumentTool: the files and the call in progress ----
    files,              \* the watched files: content and st_mtime
    ingest              \* the indexDocument call: where it is, what it read,
                        \* its result; modified_at of the stored documents

watcherVars == <<batch_processing, now, pending_events, debounce_tasks, tasks,
                 batch_events, batch_task, processed, accepted, dispatched,
                 passLog>>

storeVars == <<db, saved, in_txn, txn_owner, calls, queue, script>>

scoringVars == <<text, search_entries>>

searchVars == <<clock, tz, cache, response>>

stopVars == <<stop>>

toolVars == <<invocation>>

dispatchVars == <<stats, handled>>

\* the variables of the subsystems that every action above them leaves alone
migrationVars == <<database_file, db_connection, migration>>

poolVars == <<connection_manager, pool_users>>

serverVars == <<server, requests>>

\* the variables of the subsystems modelled last
metricsVars == <<metrics>>

healthVars == <<health>>

intakeVars == <<unqueued>>

ingestVars == <<files, ingest>>

serviceVars ==
    <<serverVars, metricsVars, healthVars, intakeVars, ingestVars>>

\* what the actions of one of these subsystems leave unchanged among them
besidesServer == <<metricsVars, healthVars, intakeVars, ingestVars>>
besidesMetrics == <<serverVars, healthVars, intakeVars, ingestVars>>
besidesHealth == <<serverVars, metricsVars, intakeVars, ingestVars>>
besidesIntake == <<serverVars, metricsVars, healthVars, ingestVars>>
besidesIngest == <<serverVars, metricsVars, healthVars, intakeVars>>

hostVars == <<dispatchVars, migrationVars, poolVars, serviceVars>>

vars == <<watcherVars, storeVars, scoringVars, searchVars, stopVars,
          toolVars, hostVars>>

(***************************************************************************)
(* Watcher: bounds and constants                                           *)
(***************************************************************************)
MaxEvents == 3
MaxTime == 4
\* WatcherConfig.debounce_delay_ms = 500 and batch_delay_ms = 1000, in ticks
DebounceDelay == 2
BatchDelay == 4

Paths == {"a.md", "b.md"}
EventTypes == {"created", "modified"}

\* the watched files are new: the first event on a path reports its creation
\* (on_created), every later one a modification (on_modified)
EventTypeFor(log, p) ==
    IF \E i \in 1..Len(log) : log[i].file_path = p
    THEN "modified" ELSE "created"

NoTask == 0
TaskIds == 1..MaxEvents

\* FileEvent; seq is the identity of the Python object
FileEvent(ty, p, ts, n) ==
    [event_type |-> ty, file_path |-> p, timestamp |-> ts, seq |-> n]

NoEvent == FileEvent("none", "none", 0, 0)

IdleTask == [st |-> "unused", key |-> "none", wake |-> 0, cancel |-> FALSE]

\* a finished task keeps nothing the handler can still observe
DoneTask == [st |-> "done", key |-> "none", wake |-> 0, cancel |-> FALSE]

NoBatchTask == [st |-> "none", wake |-> 0, queue |-> <<>>, armTs |-> 0,
                armIdx |-> 0]

InitWatcherVars ==
    /\ now = 0
    /\ pending_events = [p \in Paths |-> NoEvent]
    /\ debounce_tasks = [p \in Paths |-> NoTask]
    /\ tasks = [t \in TaskIds |-> IdleTask]
    /\ batch_events = <<>>
    /\ batch_task = NoBatchTask
    /\ processed = 0
    /\ accepted = <<>>
    /\ dispatched = <<>>
    /\ passLog = <<>>

\* time passes; asyncio timers fire at or after their deadline
Tick ==
    /\ now < MaxTime
    /\ now' = now + 1
    /\ UNCHANGED <<batch_processing, pending_events, debounce_tasks, tasks,
                   batch_events, batch_task, processed, accepted, dispatched,
                   passLog>>
    /\ UNCHANGED <<storeVars, scoringVars, searchVars, stopVars, toolVars, hostVars>>

(***************************************************************************)
(* Debounced mode                                                          *)
(***************************************************************************)
\* Task.cancel(): the CancelledError is delivered at the task's next step
CancelTask(ts, t) ==
    IF t # NoTask /\ ts[t].st \in {"new", "sleeping", "callback"}
    THEN [ts EXCEPT ![t].cancel = TRUE]
    ELSE ts

\* _handle_event_async -> _handle_with_debouncing (runs without suspending)
HandleWithDebouncing(p, ty) ==
    /\ ~batch_processing
    /\ Len(accepted) < MaxEvents
    /\ ty = EventTypeFor(accepted, p)
    /\ LET n == Len(accepted) + 1
           e == FileEvent(ty, p, now, n)
       IN /\ accepted' = Append(accepted, e)
          /\ pending_events' = [pending_events EXCEPT ![p] = e]
          /\ tasks' = [CancelTask(tasks, debounce_tasks[p]) EXCEPT
                         ![n] = [st |-> "new", key |-> p, wake |-> 0,
                                 cancel |-> FALSE]]
          /\ debounce_tasks' = [debounce_tasks EXCEPT ![p] = n]
    /\ UNCHANGED <<batch_processing, now, batch_events, batch_task, processed,
                   dispatched, passLog>>
    /\ UNCHANGED <<storeVars, scoringVars, searchVars, stopVars, toolVars, hostVars>>

\* first step of _debounced_process: a task cancelled before it ever ran ends
\* without entering the coroutine body; otherwise it reaches asyncio.sleep
DebouncedProcessStart(t) ==
    /\ tasks[t].st = "new"
    /\ tasks' = [tasks EXCEPT ![t] =
                   IF @.cancel THEN DoneTask
                   ELSE [@ EXCEPT !.st = "sleeping",
                                  !.wake = now + DebounceDelay]]
    /\ UNCHANGED <<batch_processing, now, pending_events, debounce_tasks,
                   batch_events, batch_task, processed, accepted, dispatched,
                   passLog>>
    /\ UNCHANGED <<storeVars, scoringVars, searchVars, stopVars, toolVars, hostVars>>

\* the sleep is over: pop the pending event and enter event_callback, or
\* find nothing pending and run the finally clause
DebouncedProcessWake(t) ==
    /\ tasks[t].st = "sleeping"
    /\ ~tasks[t].cancel
    /\ now >= tasks[t].wake
    /\ LET k == tasks[t].key
       IN IF pending_events[k] # NoEvent
          THEN /\ pending_events' = [pending_events EXCEPT ![k] = NoEvent]
               /\ tasks' = [tasks EXCEPT ![t].st = "callback", ![t].wake = 0]
               /\ dispatched' = Append(dispatched,
                                       [ev |-> pending_events[k], pass |-> 0])
               /\ UNCHANGED debounce_tasks
          ELSE /\ tasks' = [tasks EXCEPT ![t] = DoneTask]
               /\ debounce_tasks' = [debounce_tasks EXCEPT ![k] = NoTask]
               /\ UNCHANGED <<pending_events, dispatched>>
    /\ UNCHANGED <<batch_processing, now, batch_events, batch_task, processed,
                   accepted, passLog>>
    /\ UNCHANGED <<storeVars, scoringVars, searchVars, stopVars, toolVars, hostVars>>

\* event_callback returns (ok) or raises an Exception, which
\* _process_single_event logs; then the finally clause
DebouncedCallbackDone(t, ok) ==
    /\ tasks[t].st = "callback"
    /\ ~tasks[t].cancel
    /\ processed' = IF ok THEN processed + 1 ELSE processed
    /\ tasks' = [tasks EXCEPT ![t] = DoneTask]
    /\ debounce_tasks' = [debounce_tasks EXCEPT ![tasks[t].key] = NoTask]
    /\ UNCHANGED <<batch_processing, now, pending_events, batch_events,
                   batch_task, accepted, dispatched, passLog>>
    /\ UNCHANGED <<storeVars, scoringVars, searchVars, stopVars, toolVars, hostVars>>

\* CancelledError raised inside the coroutine (at the sleep or inside the
\* callback): the except clause pops the pending entry of the key and the
\* finally clause pops the task-table entry of the key, whoever owns them
DebouncedProcessCancelled(t) ==
    /\ tasks[t].st \in {"sleeping", "callback"}
    /\ tasks[t].cancel
    /\ pending_events' = [pending_events EXCEPT ![tasks[t].key] = NoEvent]
    /\ debounce_tasks' = [debounce_tasks EXCEPT ![tasks[t].key] = NoTask]
    /\ tasks' = [tasks EXCEPT ![t] = DoneTask]
    /\ UNCHANGED <<batch_processing, now, batch_events, batch_task, processed,
                   accepted, dispatched, passLog>>
    /\ UNCHANGED <<storeVars, scoringVars, searchVars, stopVars, toolVars, hostVars>>

(***************************************************************************)
(* Batched mode                                                            *)
(***************************************************************************)
\* (mutant) the store into the batch keeps the earlier event of the path too
BatchPutKeepsOld(q, e) == Append(q, e)

\* self._batch_events[file_key] = file_event on an insertion-ordered dict:
\* a key already present keeps its place and takes the new value
BatchPut(q, e) ==
    IF \E i \in 1..Len(q) : q[i].file_path = e.file_path
    THEN [i \in 1..Len(q) |->
            IF q[i].file_path = e.file_path THEN e ELSE q[i]]
    ELSE Append(q, e)

\* not self._batch_task or self._batch_task.done()
BatchTaskIdle == batch_task.st \in {"none", "done"}

\* _handle_event_async -> _handle_with_batching (runs without suspending)
HandleWithBatching(p, ty) ==
    /\ batch_processing
    /\ Len(accepted) < MaxEvents
    /\ ty = EventTypeFor(accepted, p)
    /\ LET n == Len(accepted) + 1
           e == FileEvent(ty, p, now, n)
       IN /\ accepted' = Append(accepted, e)
          /\ batch_events' = BatchPut(batch_events, e)
          /\ batch_task' = IF BatchTaskIdle
                           THEN [st |-> "new", wake |-> 0, queue |-> <<>>,
                                 armTs |-> now, armIdx |-> n]
                           ELSE batch_task
    /\ UNCHANGED <<batch_processing, now, pending_events, debounce_tasks,
                   tasks, processed, dispatched, passLog>>
    /\ UNCHANGED <<storeVars, scoringVars, searchVars, stopVars, toolVars, hostVars>>

\* first step of _process_batch: reach asyncio.sleep(batch_delay_ms)
ProcessBatchStart ==
    /\ batch_task.st = "new"
    /\ batch_task' = [batch_task EXCEPT !.st = "sleeping",
                                        !.wake = now + BatchDelay]
    /\ UNCHANGED <<batch_processing, now, pending_events, debounce_tasks,
                   tasks, batch_events, processed, accepted, dispatched,
                   passLog>>
    /\ UNCHANGED <<storeVars, scoringVars, searchVars, stopVars, toolVars, hostVars>>

\* the sleep is over: snapshot and clear _batch_events, then enter the
\* callback of the first event of the snapshot
ProcessBatchWake ==
    /\ batch_task.st = "sleeping"
    /\ now >= batch_task.wake
    /\ IF batch_events # <<>>
       THEN /\ batch_task' = [batch_task EXCEPT !.st = "running", !.wake = 0,
                                                !.queue = batch_events]
            /\ batch_events' = <<>>
            /\ passLog' = Append(passLog,
                    [armTs |-> batch_task.armTs, armIdx |-> batch_task.armIdx,
                     fireIdx |-> Len(accepted), complete |-> FALSE])
            /\ dispatched' = Append(dispatched,
                    [ev |-> Head(batch_events), pass |-> Len(passLog) + 1])
       ELSE /\ batch_task' = [NoBatchTask EXCEPT !.st = "done"]
            /\ UNCHANGED <<batch_events, passLog, dispatched>>
    /\ UNCHANGED <<batch_processing, now, pending_events, debounce_tasks,
                   tasks, processed, accepted>>
    /\ UNCHANGED <<storeVars, scoringVars, searchVars, stopVars, toolVars, hostVars>>

\* (mutant) an Exception of the callback ends the loop over the snapshot
ProcessBatchCallbackDoneAborts(ok) ==
    /\ batch_task.st = "running"
    /\ processed' = IF ok THEN processed + 1 ELSE processed
    /\ LET rest == IF ok THEN Tail(batch_task.queue) ELSE <<>>
       IN IF rest # <<>>
          THEN /\ batch_task' = [batch_task EXCEPT !.queue = rest]
               /\ dispatched' = Append(dispatched,
                       [ev |-> Head(rest), pass |-> Len(passLog)])
               /\ UNCHANGED passLog
          ELSE /\ batch_task' = [NoBatchTask EXCEPT !.st = "done"]
               /\ passLog' = [passLog EXCEPT ![Len(passLog)].complete = TRUE]
               /\ UNCHANGED dispatched
    /\ UNCHANGED <<batch_processing, now, pending_events, debounce_tasks,
                   tasks, batch_events, accepted>>
    /\ UNCHANGED <<storeVars, scoringVars, searchVars, stopVars, toolVars,
                   hostVars>>

\* the callback of the event at the head of the snapshot returns (ok) or
\* raises an Exception, which _process_single_event logs; the loop goes on
\* to the next event, or the task ends
ProcessBatchCallbackDone(ok) ==
    /\ batch_task.st = "running"
    /\ processed' = IF ok THEN processed + 1 ELSE processed
    /\ LET rest == Tail(batch_task.queue)
       IN IF rest # <<>>
          THEN /\ batch_task' = [batch_task EXCEPT !.queue = rest]
               /\ dispatched' = Append(dispatched,
                       [ev |-> Head(rest), pass |-> Len(passLog)])
               /\ UNCHANGED passLog
          ELSE /\ batch_task' = [NoBatchTask EXCEPT !.st = "done"]
               /\ passLog' = [passLog EXCEPT ![Len(passLog)].complete = TRUE]
               /\ UNCHANGED dispatched
    /\ UNCHANGED <<batch_processing, now, pending_events, debounce_tasks,
                   tasks, batch_events, accepted>>
    /\ UNCHANGED <<storeVars, scoringVars, searchVars, stopVars, toolVars, hostVars>>

(***************************************************************************)
(* FileWatcher.stop: flush_pending_events, then cleanup                    *)
(***************************************************************************)
\* pc is where stop() is, waiting the tasks flush_pending_events gathers,
\* pending the events that were pending when stop() was called
NotStopping == [pc |-> "watching", waiting |-> {}, pending |-> {}]

InitStopVars == stop = NotStopping

\* the watchdog observer delivers an event; stop() stops the observer first
WatchedEvent(p, ty) ==
    /\ stop.pc = "watching"
    /\ \/ HandleWithDebouncing(p, ty)
       \/ HandleWithBatching(p, ty)

\* stop() may outlast the watch by one batch delay while it awaits tasks
TickWhileStopping ==
    /\ stop.pc \in {"gather", "inline"}
    /\ now >= MaxTime /\ now < MaxTime + BatchDelay
    /\ now' = now + 1
    /\ UNCHANGED <<batch_processing, pending_events, debounce_tasks, tasks,
                   batch_events, batch_task, processed, accepted, dispatched,
                   passLog, stop>>
    /\ UNCHANGED <<storeVars, scoringVars, searchVars, toolVars, hostVars>>

\* cleanup(): cancel the tasks of _debounce_tasks and the batch task, wait
\* for them, clear _pending_events, _debounce_tasks and _batch_events
Cleanup(pending) ==
    /\ tasks' = [t \in TaskIds |->
                    IF /\ \E p \in Paths : debounce_tasks[p] = t
                       /\ tasks[t].st # "done"
                    THEN DoneTask ELSE tasks[t]]
    /\ batch_task' = IF BatchTaskIdle THEN batch_task
                     ELSE [NoBatchTask EXCEPT !.st = "done"]
    /\ pending_events' = [p \in Paths |-> NoEvent]
    /\ debounce_tasks' = [p \in Paths |-> NoTask]
    /\ batch_events' = <<>>
    /\ stop' = [pc |-> "stopped", waiting |-> {}, pending |-> pending]
    /\ UNCHANGED <<batch_processing, now, processed, accepted, dispatched,
                   passLog>>

\* flush_pending_events after the gather: events in _batch_events with no
\* batch task running are processed by awaiting _process_batch(); then, or
\* otherwise at once, cleanup()
FlushBatch(pending) ==
    IF batch_events # <<>> /\ BatchTaskIdle
    THEN /\ batch_task' = [st |-> "new", wake |-> 0, queue |-> <<>>,
                           armTs |-> now, armIdx |-> Len(accepted)]
         /\ stop' = [pc |-> "inline", waiting |-> {}, pending |-> pending]
         /\ UNCHANGED <<batch_processing, now, pending_events,
                        debounce_tasks, tasks, batch_events, processed,
                        accepted, dispatched, passLog>>
    ELSE Cleanup(pending)

\* the events waiting for their debounce timer or in the current batch
PendingEvents ==
    {pending_events[p] : p \in {q \in Paths : pending_events[q] # NoEvent}}
        \cup {batch_events[i] : i \in 1..Len(batch_events)}

\* FileWatcher.stop() is called: observer.stop(), observer.join(), then
\* flush_pending_events gathers the tasks of _debounce_tasks, if any
StopCalled ==
    /\ stop.pc = "watching"
    /\ LET waiting == {debounce_tasks[p] : p \in Paths} \ {NoTask}
       IN IF waiting # {}
          THEN /\ stop' = [pc |-> "gather", waiting |-> waiting,
                           pending |-> PendingEvents]
               /\ UNCHANGED watcherVars
          ELSE FlushBatch(PendingEvents)
    /\ UNCHANGED <<storeVars, scoringVars, searchVars, toolVars, hostVars>>

\* the gathered debounce tasks have all ended
StopGathered ==
    /\ stop.pc = "gather"
    /\ \A t \in stop.waiting : tasks[t].st = "done"
    /\ FlushBatch(stop.pending)
    /\ UNCHANGED <<storeVars, scoringVars, searchVars, toolVars, hostVars>>

\* the awaited _process_batch() has returned
StopFlushed ==
    /\ stop.pc = "inline"
    /\ batch_task.st = "done"
    /\ Cleanup(stop.pending)
    /\ UNCHANGED <<storeVars, scoringVars, searchVars, toolVars, hostVars>>

(***************************************************************************)
(* Tool calls: _handle_call_tool -> ToolRegistry.execute_tool -> the       *)
(* registered handler -> BaseMCPTool.execute -> _execute_tool; the watcher *)
(* calls IndexDocumentTool._execute_tool itself                            *)
(***************************************************************************)
\* BaseMCPTool.timeout_seconds = 30.0, in ticks of 15 s
timeout_seconds == 2
\* how long a handler is followed
MaxElapsed == 3

\* Python values: py is the class, len the length of a str or list, num the
\* value of a number (True is 1), val the text of a str
Absent == [py |-> "absent", len |-> 0, num |-> 0, val |-> ""]
PyNone == [py |-> "NoneType", len |-> 0, num |-> 0, val |-> ""]
Str(v, n) == [py |-> "str", len |-> n, num |-> 0, val |-> v]
PyInt(i) == [py |-> "int", len |-> 0, num |-> i, val |-> ""]
PyBool(b) == [py |-> "bool", len |-> 0, num |-> IF b THEN 1 ELSE 0, val |-> ""]

\* a property of a parameter schema; has names the constraints it carries
Property(type, has, lo, hi, enum, default) ==
    [type |-> type, has |-> has, lo |-> lo, hi |-> hi, enum |-> enum,
     default |-> default]

\* get_parameter_schema of SearchDocumentsTool and of IndexDocumentTool
ParameterSchema(name) ==
    IF name = "searchDocuments"
    THEN [required |-> {"query"},
          properties |->
            [query |-> Property("string", {"minLength", "maxLength"},
                                1, 500, {}, Absent),
             limit |-> Property("integer", {"minimum", "maximum", "default"},
                                1, 100, {}, PyInt(10)),
             file_type |-> Property("string", {"enum", "default"}, 0, 0,
                                    {".md", ".txt", "markdown", "text"},
                                    PyNone),
             sort_by |-> Property("string", {"enum", "default"}, 0, 0,
                                  {"relevance", "date", "name"},
                                  Str("relevance", 9))]]
    ELSE [required |-> {"file_path"},
          properties |->
            [file_path |-> Property("string", {"minLength", "maxLength"},
                                    1, 1000, {}, Absent),
             force_reindex |-> Property("boolean", {"default"}, 0, 0, {},
                                        PyBool(FALSE))]]

RegisteredTools == {"searchDocuments", "indexDocument"}

\* the arguments a client may send
Arguments(name) ==
    IF name = "searchDocuments"
    THEN [query : {Absent, Str("foo", 3), Str("", 0), Str("long", 501),
                   PyInt(5)},
          limit : {Absent, PyInt(10), PyInt(0), PyInt(150), PyBool(TRUE),
                   Str("10", 2)},
          file_type : {Absent, Str(".md", 3), Str("invalid", 7)},
          sort_by : {Absent, Str("date", 4), Str("newest", 6)}]
    ELSE [file_path : {Absent, Str("a.md", 4), Str("", 0)},
          force_reindex : {Absent, PyBool(TRUE), Str("yes", 3)}]

\* _validate_type: isinstance against the class of the JSON type; bool is a
\* subclass of int
ValidateType(value, expected_type) ==
    CASE expected_type = "string" -> value.py = "str"
      [] expected_type = "number" -> value.py \in {"int", "float", "bool"}
      [] expected_type = "integer" -> value.py \in {"int", "bool"}
      [] expected_type = "boolean" -> value.py = "bool"
      [] expected_type = "array" -> value.py = "list"
      [] expected_type = "object" -> value.py = "dict"
      [] expected_type = "null" -> value.py = "NoneType"
      [] OTHER -> TRUE

\* _validate_property_constraints: TRUE when it raises nothing
ValidatePropertyConstraints(value, prop) ==
    /\ value.py = "str" =>
          /\ "minLength" \in prop.has => value.len >= prop.lo
          /\ "maxLength" \in prop.has => value.len <= prop.hi
    /\ value.py \in {"int", "float", "bool"} =>
          /\ "minimum" \in prop.has => value.num >= prop.lo
          /\ "maximum" \in prop.has => value.num <= prop.hi
    /\ value.py = "list" =>
          /\ "minItems" \in prop.has => value.len >= prop.lo
          /\ "maxItems" \in prop.has => value.len <= prop.hi

\* validate_parameters: TRUE when it raises no ToolValidationError
ValidateParameters(schema, params) ==
    /\ \A f \in schema.required : params[f] # Absent
    /\ \A p \in DOMAIN params :
          params[p] # Absent =>
             /\ ValidateType(params[p], schema.properties[p].type)
             /\ ValidatePropertyConstraints(params[p], schema.properties[p])

\* validate_parameters: the defaults it adds for the parameters not given
ApplyDefaults(schema, params) ==
    [p \in DOMAIN params |->
        IF params[p] = Absent /\ "default" \in schema.properties[p].has
        THEN schema.properties[p].default ELSE params[p]]

\* ToolRegistry._validate_arguments: TRUE when it raises no ValidationError
ValidateArguments(schema, arguments) ==
    /\ \A f \in schema.required : arguments[f] # Absent
    /\ \A a \in DOMAIN arguments :
          arguments[a] # Absent =>
             ValidateType(arguments[a], schema.properties[a].type)

\* ToolResult
SuccessResult == [success |-> TRUE, error |-> "none"]
ErrorResult(error_message) == [success |-> FALSE, error |-> error_message]

\* the except clauses of BaseMCPTool.execute
ExecuteCatches(exception) ==
    CASE exception = "ToolValidationError" ->
             ErrorResult("Parameter validation failed")
      [] exception = "TimeoutError" -> ErrorResult("Tool execution timed out")
      [] OTHER -> ErrorResult("Tool execution failed")

\* ToolResult.to_dict: the keys of the dictionary
ToDict(result) ==
    [keys |-> {"success", "execution_time_ms"}
                 \cup (IF result.success THEN {"data"} ELSE {"error"}),
     success |-> result.success, error |-> result.error]

\* index_document_handler and its siblings: ToolResult to dictionary
RegisteredHandler(result) ==
    IF result.success THEN ToDict(result)
    ELSE [keys |-> {"error", "success"}, success |-> FALSE,
          error |-> result.error]

\* (mutant) a response that is an error only when success is missing
CallToolResultBySuccessKey(result) ==
    IF "success" \notin result.keys
    THEN [isError |-> TRUE, text |-> <<"Error: ", result.error>>,
          raised |-> "none"]
    ELSE [isError |-> FALSE, text |-> <<"json">>, raised |-> "none"]

\* _handle_call_tool: the dictionary of the handler as an MCP response
CallToolResult(result) ==
    IF "error" \in result.keys
    THEN [isError |-> TRUE, text |-> <<"Error: ", result.error>>,
          raised |-> "none"]
    ELSE [isError |-> FALSE, text |-> <<"json">>, raised |-> "none"]

\* the classes derived from Exception, which except Exception catches
IsException(class) ==
    class \in {"Exception", "ValidationError", "ToolExecutionError",
               "ToolValidationError", "TimeoutError"}

\* ToolRegistry.execute_tool: every Exception leaves as ToolExecutionError
ExecuteToolRaises(class) ==
    IF IsException(class) THEN "ToolExecutionError" ELSE class

\* _handle_call_tool, except Exception: what execute_tool raised becomes an
\* error response; anything else leaves through the transport
UnexpectedError(class) ==
    IF IsException(class)
    THEN [isError |-> TRUE,
          text |-> <<"Error: Unexpected error executing tool", class>>,
          raised |-> "none"]
    ELSE [isError |-> FALSE, text |-> <<>>, raised |-> class]

NoInvocation ==
    [route |-> "none", name |-> "none", arguments |-> <<>>, params |-> <<>>,
     pc |-> "idle", timed |-> FALSE, elapsed |-> 0, failure |-> "none",
     response |-> [isError |-> FALSE, text |-> <<>>, raised |-> "none"],
     indexed |-> FALSE]

InitToolVars == invocation = NoInvocation

\* the response of a call that ended before or after its handler
Responded(failure, call_tool_result) ==
    invocation' = [invocation EXCEPT !.pc = "responded",
                                     !.failure = failure,
                                     !.response = call_tool_result]

\* _handle_call_tool up to the first suspension of the handler: unknown
\* tool, ToolRegistry._validate_arguments, BaseMCPTool.validate_parameters,
\* then _execute_tool under asyncio.wait_for
HandleCallTool(name, arguments) ==
    /\ invocation.pc = "idle"
    /\ LET schema == ParameterSchema(name)
           started == [invocation EXCEPT !.route = "server", !.name = name,
                                         !.arguments = arguments]
       IN IF name \notin RegisteredTools
          THEN invocation' = [started EXCEPT
                  !.pc = "responded", !.failure = "unknown tool",
                  !.response = [isError |-> TRUE,
                                text |-> <<"Error: ", "Tool not found">>,
                                raised |-> "none"]]
          ELSE IF ~ValidateArguments(schema, arguments)
          THEN invocation' = [started EXCEPT
                  !.pc = "responded", !.failure = "validation",
                  !.response = UnexpectedError(
                                   ExecuteToolRaises("ValidationError"))]
          ELSE IF ~ValidateParameters(schema, arguments)
          THEN invocation' = [started EXCEPT
                  !.pc = "responded", !.failure = "validation",
                  !.response = CallToolResult(RegisteredHandler(
                                   ExecuteCatches("ToolValidationError")))]
          ELSE invocation' = [started EXCEPT
                  !.pc = "handler", !.timed = TRUE,
                  !.params = ApplyDefaults(schema, arguments)]
    /\ UNCHANGED <<watcherVars, storeVars, scoringVars, searchVars, stopVars,
                   hostVars>>

\* FileWatcher._index_document: the parameters go to _execute_tool as they
\* are, and nothing bounds the await
WatcherIndexDocument(file_path) ==
    /\ invocation.pc = "idle"
    /\ LET params == [file_path |-> file_path,
                      force_reindex |-> PyBool(FALSE)]
       IN invocation' = [invocation EXCEPT
             !.route = "watcher", !.name = "indexDocument",
             !.arguments = params, !.params = params,
             !.pc = "handler", !.timed = FALSE]
    /\ UNCHANGED <<watcherVars, storeVars, scoringVars, searchVars, stopVars,
                   hostVars>>

\* the handler is still running a tick later; asyncio.wait_for lets it run
\* until the timeout only
HandlerRuns ==
    /\ invocation.pc = "handler"
    /\ invocation.elapsed < MaxElapsed
    /\ invocation.timed => invocation.elapsed < timeout_seconds
    /\ invocation' = [invocation EXCEPT !.elapsed = @ + 1]
    /\ UNCHANGED <<watcherVars, storeVars, scoringVars, searchVars, stopVars,
                   hostVars>>

\* asyncio.wait_for cancels the handler and raises TimeoutError
WaitForTimesOut ==
    /\ invocation.pc = "handler"
    /\ invocation.timed
    /\ invocation.elapsed >= timeout_seconds
    /\ Responded("timeout",
                 CallToolResult(RegisteredHandler(
                     ExecuteCatches("TimeoutError"))))
    /\ UNCHANGED <<watcherVars, storeVars, scoringVars, searchVars, stopVars,
                   hostVars>>

\* _execute_tool ends: with a success result, with an error result (a store
\* error it caught itself), or by raising an Exception
HandlerEnds(outcome) ==
    /\ invocation.pc = "handler"
    /\ LET result == CASE outcome = "success" -> SuccessResult
                       [] outcome = "store error" ->
                              ErrorResult("Failed to store document")
                       [] OTHER -> ExecuteCatches("Exception")
           failure == IF outcome = "success" THEN "none" ELSE outcome
       IN IF invocation.route = "server"
          THEN Responded(failure, CallToolResult(RegisteredHandler(result)))
          ELSE \* result.is_success is no attribute of ToolResult: the
               \* AttributeError is caught and reported as a failure
               invocation' = [invocation EXCEPT !.pc = "responded",
                                                !.failure = failure,
                                                !.indexed = FALSE]
    /\ UNCHANGED <<watcherVars, storeVars, scoringVars, searchVars, stopVars,
                   hostVars>>

NextTools ==
    \/ \E name \in RegisteredTools \cup {"deleteDocument"} :
          \E arguments \in Arguments(name) : HandleCallTool(name, arguments)
    \/ \E file_path \in {Str("a.md", 4), Str("b.md", 4)} :
          WatcherIndexDocument(file_path)
    \/ HandlerRuns
    \/ WaitForTimesOut
    \/ \E outcome \in {"success", "store error", "handler exception"} :
          HandlerEnds(outcome)

(***************************************************************************)
(* The state at construction of the subsystems modelled further down      *)
(***************************************************************************)
\* FileWatcher.stats
NoStats ==
    [files_indexed |-> 0, files_updated |-> 0, files_deleted |-> 0,
     files_moved |-> 0, indexing_errors |-> 0, total_events_processed |-> 0]

NoneHandled ==
    [count |-> 0, failed |-> FALSE, errors |-> 0,
     last |-> [event_type |-> "none", file_path |-> "none",
               old_path |-> "none", had |-> FALSE, action |-> "None"]]

InitDispatchVars == stats = NoStats /\ handled = NoneHandled

\* a database file that does not exist yet, a DatabaseConnection that has
\* not connected, a MigrationManager that has not been asked anything
NewFile == [objects |-> {}, log |-> {}, user_version |-> 0]

NotConnected == [connected |-> FALSE, is_initialized |-> FALSE]

NoMigration ==
    [op |-> "none", target |-> 0, direction |-> "up", todo |-> <<>>,
     done |-> <<>>, result |-> "none", start_version |-> 0,
     before |-> NewFile]

InitMigrationVars ==
    /\ database_file = NewFile
    /\ db_connection = NotConnected
    /\ migration = NoMigration

\* no ConnectionManager yet, and nobody using a connection
MaxCallers == 11

Callers == 1..MaxCallers

NoManager ==
    [created |-> FALSE, max_connections |-> 0, available_slots |-> 0,
     connections |-> {}]

InitPoolVars ==
    /\ connection_manager = NoManager
    /\ pool_users = [caller \in Callers |-> "none"]

\* MyDocsMCPServer.__init__, and no request received
MaxRequests == 2

CoreTools == {"indexDocument", "searchDocuments", "getDocument"}

NewServer ==
    [tools_registered |-> FALSE, tools |-> {},
     registered |-> [name \in CoreTools |-> 0],
     file_watcher |-> "none", pc |-> "running"]

NoRequest == [pc |-> "idle", name |-> "none", lost |-> FALSE,
              isError |-> FALSE]

InitServerVars ==
    /\ server = NewServer
    /\ requests = [r \in 1..MaxRequests |-> NoRequest]

\* BaseMCPTool.__init__: the counters of a tool that was never executed
MaxExecutes == 3

NewMetrics ==
    [execution_count |-> 0, error_count |-> 0, calls |-> 0, pc |-> "idle",
     elapsed |-> 0, outcome |-> "none", outcomes |-> {}]

InitMetricsVars == metrics = NewMetrics

\* FileWatcher.__init__ with its configured directories present
watch_directories == {"docs", "notes"}

NoReport ==
    [asked |-> FALSE, healthy |-> FALSE, issues |-> {},
     error_rate |-> <<0, 1>>,
     at |-> [is_watching |-> FALSE, missing |-> {}, errors |-> 0,
             count |-> 0]]

InitHealthVars ==
    health = [is_watching |-> FALSE, observer_alive |-> FALSE,
              missing |-> {}, report |-> NoReport]

\* no event has been refused by _queue_event
MaxUnqueued == 1

InitIntakeVars == unqueued = <<>>

MaxIngestClock == 1

\* a.md as it was when it was indexed, b.md not indexed yet; no
\* indexDocument call made
NoIngest ==
    [pc |-> "idle", file_path |-> "none", content |-> <<>>,
     existed |-> FALSE, status |-> "none", document_id |-> 0,
     modified_at |-> [p \in {"a.md", "b.md"} |-> 0],
     ingested |-> [p \in {"a.md", "b.md"} |-> <<>>]]

InitIngestVars ==
    /\ files = [p \in {"a.md", "b.md"} |->
                   [content |-> IF p = "a.md"
                                THEN << <<"foo">>, <<"the">>, <<"bar">> >>
                                ELSE << <<"bar">>, <<"baz">> >>,
                    st_mtime |-> 0]]
    /\ ingest = NoIngest

InitServiceVars ==
    /\ InitServerVars /\ InitMetricsVars /\ InitHealthVars
    /\ InitIntakeVars /\ InitIngestVars

InitHostVars ==
    InitDispatchVars /\ InitMigrationVars /\ InitPoolVars /\ InitServiceVars

(***************************************************************************)
(* Store: documents, tokenizer and scoring                                 *)
(***************************************************************************)
\* A document's text is a sequence of whitespace-separated words; a word is
\* a sequence of alphabetic runs joined by punctuation ("bar-bar-bar").
DocA == << <<"foo">>, <<"the">>, <<"bar">> >>
DocB == << <<"bar">>, <<"baz">> >>
DocC == << <<"foo">>, <<"bar", "bar", "bar">> >>
DocD == << <<"the">> >>


stop_words == {"the", "and", "for"}

RECURSIVE Flatten(_)
\* re.findall(r'\b[a-zA-Z]{3,}\b', content.lower()): every alphabetic run
Flatten(content) ==
    IF content = <<>> THEN <<>> ELSE Head(content) \o Flatten(Tail(content))

\* the 0-based positions of word w in the run list ws
PositionsOf(ws, w) ==
    LET RECURSIVE Pos(_)
        Pos(i) == IF i > Len(ws) THEN <<>>
                  ELSE IF ws[i] = w THEN <<i - 1>> \o Pos(i + 1)
                  ELSE Pos(i + 1)
    IN Pos(1)

\* _extract_keywords: keyword -> positions, in order of first occurrence
ExtractKeywords(content) ==
    LET ws == Flatten(content)
        RECURSIVE Keys(_, _)
        Keys(i, seen) ==
            IF i > Len(ws) THEN <<>>
            ELSE IF ws[i] \in stop_words \/ ws[i] \in seen
                 THEN Keys(i + 1, seen)
                 ELSE <<[keyword |-> ws[i], positions |-> PositionsOf(ws, ws[i])]>>
                          \o Keys(i + 1, seen \cup {ws[i]})
    IN Keys(1, {})

Min(a, b) == IF a <= b THEN a ELSE b

\* SearchIndex.calculate_relevance_score: tf * (1.0 + min(1.0, frequency/5.0))
\* with tf = frequency / document_length, kept as the exact fraction
\* num / den = frequency * (5 + min(5, frequency)) / (5 * document_length)
CalculateRelevanceScore(frequency, document_length) ==
    IF document_length = 0
    THEN [num |-> 0, den |-> 1]
    ELSE [num |-> frequency * (5 + Min(5, frequency)),
          den |-> 5 * document_length]

\* _index_document_keywords: the SearchIndex entries built for a document;
\* document_length = len(content.split()), the number of words
SearchEntries(document_id, content, who) ==
    LET kws == ExtractKeywords(content)
        document_length == Len(content)
    IN [i \in 1..Len(kws) |->
          LET f == Len(kws[i].positions)
              r == CalculateRelevanceScore(f, document_length)
          IN [document_id |-> document_id, keyword |-> kws[i].keyword,
              frequency |-> f, positions |-> kws[i].positions,
              num |-> r.num, den |-> r.den, by |-> who]]

\* _combine_metadata: the metadata the indexing tool stores with a
\* document; the keyword count is there when the parse found keywords
MetadataFor(content) ==
    {[key |-> "word_count", value |-> Len(content)]} \cup
    (IF ExtractKeywords(content) # <<>>
     THEN {[key |-> "keywords", value |-> Len(ExtractKeywords(content))]}
     ELSE {})

(***************************************************************************)
(* Store: the SQLite schema and the statements the query classes run       *)
(***************************************************************************)
\* a SQLite statement's outcome: the database after it, whether it
\* succeeded, and its rowcount (lastrowid for an INSERT into documents)
Stmt(d, ok, n) == [db |-> d, ok |-> ok, n |-> n]

DocIds(d) == {r.id : r \in d.documents}

\* INSERT INTO documents on a table whose file_path is not declared UNIQUE
InsertDocumentNoUnique(d, path, content) ==
    Stmt([d EXCEPT !.documents = @ \cup {[id |-> d.seq + 1,
                                          file_path |-> path,
                                          content |-> content]},
                   !.seq = @ + 1],
         TRUE, d.seq + 1)

\* INSERT INTO documents: file_path is UNIQUE, id is AUTOINCREMENT
InsertDocument(d, path, content) ==
    IF \E r \in d.documents : r.file_path = path
    THEN Stmt(d, FALSE, 0)
    ELSE Stmt([d EXCEPT !.documents = @ \cup {[id |-> d.seq + 1,
                                                file_path |-> path,
                                                content |-> content]},
                        !.seq = @ + 1],
              TRUE, d.seq + 1)

\* an update that stores the document as a new row with a fresh id
UpdateDocumentAsNewRow(d, id, path, content) ==
    IF id \notin DocIds(d) THEN Stmt(d, TRUE, 0)
    ELSE Stmt([d EXCEPT !.documents =
                   {r \in @ : r.id # id} \cup
                   {[id |-> d.seq + 1, file_path |-> path,
                     content |-> content]},
                        !.seq = @ + 1],
              TRUE, 1)

\* UPDATE documents SET file_path = ?, content = ?, ... WHERE id = ?
UpdateDocument(d, id, path, content) ==
    IF id \notin DocIds(d) THEN Stmt(d, TRUE, 0)
    ELSE IF \E r \in d.documents : r.file_path = path /\ r.id # id
    THEN Stmt(d, FALSE, 0)
    ELSE Stmt([d EXCEPT !.documents =
                   {r \in @ : r.id # id} \cup
                   {[id |-> id, file_path |-> path, content |-> content]}],
              TRUE, 1)

\* DELETE FROM documents WHERE id = ?; both child tables are declared
\* ON DELETE CASCADE and foreign_keys is ON
DeleteDocumentRow(d, id) ==
    IF id \notin DocIds(d) THEN Stmt(d, TRUE, 0)
    ELSE Stmt([d EXCEPT
                 !.documents = {r \in @ : r.id # id},
                 !.document_metadata = {r \in @ : r.document_id # id},
                 !.search_index = {r \in @ : r.document_id # id}],
              TRUE, 1)

\* DELETE FROM search_index WHERE document_id = ?
DeleteSearchIndex(d, id) ==
    Stmt([d EXCEPT !.search_index = {r \in @ : r.document_id # id}], TRUE,
         Cardinality({r \in d.search_index : r.document_id = id}))

\* DELETE FROM document_metadata WHERE document_id = ?
DeleteMetadata(d, id) ==
    Stmt([d EXCEPT !.document_metadata = {r \in @ : r.document_id # id}],
         TRUE, Cardinality({r \in d.document_metadata : r.document_id = id}))

\* one row of INSERT OR REPLACE INTO search_index: the foreign key and the
\* CHECK constraints abort the row, UNIQUE(document_id, keyword) replaces
IndexRowAccepted(d, e) ==
    /\ e.document_id \in DocIds(d)
    /\ e.frequency > 0
    /\ e.num >= 0 /\ e.num <= e.den

RECURSIVE BulkInsertSearchIndex(_, _)
\* executemany: the rows are inserted in order; the first rejected row
\* raises and leaves the rows before it in place
BulkInsertSearchIndex(d, entries) ==
    IF entries = <<>> THEN Stmt(d, TRUE, 0)
    ELSE LET e == Head(entries)
         IN IF ~IndexRowAccepted(d, e) THEN Stmt(d, FALSE, 0)
            ELSE BulkInsertSearchIndex(
                     [d EXCEPT !.search_index =
                          {r \in @ : ~(r.document_id = e.document_id
                                        /\ r.keyword = e.keyword)} \cup {e}],
                     Tail(entries))

\* executemany of INSERT OR REPLACE INTO document_metadata, one row per key
BulkInsertMetadata(d, id, metadata) ==
    IF id \notin DocIds(d) THEN Stmt(d, FALSE, 0)
    ELSE Stmt([d EXCEPT !.document_metadata =
                   {r \in @ : ~(r.document_id = id
                                 /\ \E m \in metadata : m.key = r.key)} \cup
                   {[document_id |-> id, key |-> m.key, value |-> m.value] :
                        m \in metadata}],
              TRUE, Cardinality(metadata))

\* DELETE FROM search_cache WHERE expires_at <= datetime('now')
CleanupExpiredCache(d) ==
    Stmt([d EXCEPT !.search_cache = {c \in @ : ~c.expired}], TRUE,
         Cardinality({c \in d.search_cache : c.expired}))

\* INSERT OR REPLACE INTO search_cache: query_hash is UNIQUE
InsertSearchCache(d, query_hash) ==
    LET id == 1 + Cardinality({c.id : c \in d.search_cache})
    IN Stmt([d EXCEPT !.search_cache =
                 {c \in @ : c.query_hash # query_hash} \cup
                 {[id |-> id, query_hash |-> query_hash, hit_count |-> 0,
                   expired |-> FALSE]}],
            TRUE, id)

\* UPDATE search_cache SET hit_count = hit_count + 1 WHERE id = ?
UpdateCacheHitCount(d, id) ==
    Stmt([d EXCEPT !.search_cache =
              {IF c.id = id THEN [c EXCEPT !.hit_count = @ + 1] ELSE c :
                   c \in @}],
         TRUE, Cardinality({c \in d.search_cache : c.id = id}))

(***************************************************************************)
(* Store: connection state and the calls in flight                         *)
(***************************************************************************)
MaxCalls == 2
MaxTimeouts == 1
MaxSearches == 3
\* the slots for calls; a specification's script says which are used
CallIds == 1..(MaxCalls + 2)
NoCall == 0

EmptyDb == [documents |-> {}, document_metadata |-> {}, search_index |-> {},
            search_cache |-> {}, seq |-> 0]

\* a call: kind is the entry point, stage the query method it is in, phase
\* its position inside DatabaseConnection.transaction(); outcome records
\* how the call's bulk_create_search_index transaction ended, cancelled
\* that its task has been cancelled while its operation is in the queue,
\* runs how many times a search client has sent its query, seen the
\* response data a searchDocuments call has put together
IdleCall == [kind |-> "idle", path |-> "none", content |-> <<>>,
             target |-> 0, stage |-> "idle", phase |-> "none",
             existing |-> 0, doc_id |-> 0, n |-> 0, result |-> "none",
             outcome |-> "none", cancelled |-> FALSE, runs |-> 0,
             seen |-> <<>>]

Running(c) == c.kind # "idle" /\ c.stage # "done"

\* what the next statement of the connection would see committed
Committed == IF in_txn THEN saved ELSE db

\* the store after a.md has been indexed with text DocA and one search has
\* been cached
IndexedDb ==
    LET d1 == InsertDocument(EmptyDb, "a.md", DocA).db
        d2 == BulkInsertMetadata(d1, 1, MetadataFor(DocA)).db
        d3 == BulkInsertSearchIndex(d2, SearchEntries(1, DocA, NoCall)).db
    IN [d3 EXCEPT !.search_cache =
            {[id |-> 1, query_hash |-> "q", hit_count |-> 0,
              expired |-> FALSE]}]

InitStoreVars ==
    /\ db = IndexedDb
    /\ saved = EmptyDb
    /\ in_txn = FALSE
    /\ txn_owner = NoCall
    /\ calls = [t \in CallIds |-> IdleCall]
    /\ queue = <<>>

\* the entry points a client or the watcher can call, and their arguments
Requests ==
    << [kind |-> "index", path |-> "a.md", content |-> DocB, target |-> 0],
       [kind |-> "index", path |-> "a.md", content |-> DocC, target |-> 0],
       [kind |-> "index", path |-> "b.md", content |-> DocB, target |-> 0],
       [kind |-> "delete", path |-> "none", content |-> <<>>, target |-> 1],
       [kind |-> "search", path |-> "none", content |-> <<>>, target |-> 0],
       [kind |-> "query", path |-> "none", content |-> <<>>, target |-> 0],
       [kind |-> "create", path |-> "b.md", content |-> DocB, target |-> 0],
       [kind |-> "create", path |-> "b.md", content |-> DocC, target |-> 0],
       [kind |-> "create", path |-> "c.md", content |-> DocB, target |-> 0],
       [kind |-> "create", path |-> "c.md", content |-> DocC, target |-> 0],
       [kind |-> "create", path |-> "d.md", content |-> DocB, target |-> 0],
       [kind |-> "create", path |-> "d.md", content |-> DocC, target |-> 0] >>

\* the term a searchDocuments call asks for; it is also its cache key
QueryTerm == "foo"

\* Calls are numbered in the order they are made. A search client whose
\* query has been answered may send it again.
CanStart(t, i) ==
    /\ i \in script[t]
    /\ \/ /\ calls[t].kind = "idle"
          /\ \A u \in CallIds : u < t => calls[u].kind # "idle"
       \/ /\ calls[t].kind = "search" /\ Requests[i].kind = "search"
          /\ calls[t].stage = "done" /\ calls[t].result # "timeout"
          /\ calls[t].runs < MaxSearches

\* DocumentManager.index_document(file_path, content, metadata),
\* DocumentManager.delete_document(document_id),
\* SearchQueries.get_search_cache(query_hash),
\* SearchDocumentsTool._execute_tool(query) or
\* DocumentQueries.create_document(document) is called
Invoke(t, i) ==
    /\ CanStart(t, i)
    /\ LET r == Requests[i]
       IN calls' = [calls EXCEPT ![t] =
              [IdleCall EXCEPT
                  !.kind = r.kind, !.path = r.path, !.content = r.content,
                  !.target = r.target,
                  !.doc_id = r.target,
                  !.stage = CASE r.kind = "index" -> "lookup"
                              [] r.kind = "delete" -> "idxdel"
                              [] r.kind = "search" -> "fetch"
                              [] r.kind = "query" -> "fetch"
                              [] r.kind = "create" -> "doc",
                  !.phase = IF r.kind \in {"delete", "create"}
                            THEN "begin" ELSE "none",
                  !.runs = calls[t].runs + 1]]
    /\ queue' = Append(queue, t)
    /\ UNCHANGED <<db, saved, in_txn, txn_owner>>
    /\ UNCHANGED <<script, watcherVars, scoringVars, searchVars, stopVars, toolVars, hostVars>>

\* the call returns: its locals are gone, its result stays
Return(c, res) ==
    [c EXCEPT !.stage = "done", !.phase = "none", !.existing = 0, !.n = 0,
              !.result = res, !.cancelled = FALSE]

Enter(c, stage) == [c EXCEPT !.stage = stage, !.phase = "begin", !.n = 0]

\* the statement a query method runs inside its transaction, for call t
StageStmt(t, d) ==
    LET c == calls[t]
    IN CASE c.stage = "doc" /\ c.kind = "index" /\ c.existing # 0 ->
                UpdateDocument(d, c.existing, c.path, c.content)
         [] c.stage = "doc" /\ c.kind = "index" /\ c.existing = 0 ->
                InsertDocument(d, c.path, c.content)
         [] c.stage = "doc" /\ c.kind = "delete" ->
                DeleteDocumentRow(d, c.target)
         [] c.stage = "doc" /\ c.kind = "create" ->
                InsertDocument(d, c.path, c.content)
         [] c.stage = "meta" /\ c.kind = "index" ->
                BulkInsertMetadata(d, c.doc_id, MetadataFor(c.content))
         [] c.stage = "meta" /\ c.kind = "delete" ->
                DeleteMetadata(d, c.target)
         [] c.stage = "idxdel" -> DeleteSearchIndex(d, c.doc_id)
         [] c.stage = "idxins" ->
                BulkInsertSearchIndex(d, SearchEntries(c.doc_id, c.content, t))
         [] c.stage = "sweep" -> CleanupExpiredCache(d)
         [] c.stage = "hit" -> UpdateCacheHitCount(d, c.target)
         [] c.stage = "store" -> InsertSearchCache(d, QueryTerm)

\* where a call goes once the transaction of its stage has committed
AfterCommit(c) ==
    CASE c.kind = "index" /\ c.stage = "doc" ->
            IF c.existing # 0
            THEN IF c.n > 0
                 THEN Enter([c EXCEPT !.doc_id = c.existing], "meta")
                 ELSE Return(c, "failed")
            ELSE Enter([c EXCEPT !.doc_id = c.n], "meta")
      [] c.kind = "index" /\ c.stage = "meta" -> Enter(c, "idxdel")
      [] c.kind = "index" /\ c.stage = "idxdel" ->
            IF ExtractKeywords(c.content) # <<>>
            THEN Enter(c, "idxins") ELSE Enter(c, "sweep")
      [] c.kind = "index" /\ c.stage = "idxins" -> Enter(c, "sweep")
      [] c.kind = "delete" /\ c.stage = "idxdel" -> Enter(c, "meta")
      [] c.kind = "delete" /\ c.stage = "meta" -> Enter(c, "doc")
      [] c.kind = "delete" /\ c.stage = "doc" ->
            IF c.n > 0 THEN Enter(c, "sweep") ELSE Return(c, "failed")
      [] c.kind = "create" /\ c.stage = "doc" ->
            Return([c EXCEPT !.doc_id = c.n], "ok")
      [] c.stage = "sweep" -> Return(c, "ok")
      [] c.stage = "hit" -> Return(c, "ok")
      [] c.stage = "store" -> Return(c, "ok")

\* where a call goes when its stage raised: _index_document_keywords,
\* _invalidate_search_cache and _cache_search_results log and swallow, the
\* entry points give up
AfterRaise(c) ==
    CASE c.kind = "index" /\ c.stage \in {"idxdel", "idxins"} ->
            Enter(c, "sweep")
      [] c.stage = "sweep" -> Return(c, "ok")
      [] c.stage = "store" -> Return(c, "ok")
      [] OTHER -> Return(c, "failed")

\* the rows of search_index written by call t
RowsBy(d, t) == {r \in d.search_index : r.by = t}

\* bookkeeping: how the transaction of bulk_create_search_index ended for
\* the call, "lost" when its commit found none or part of its rows left
Ended(t, c, how) ==
    IF c.stage # "idxins" THEN c
    ELSE IF how = "committed"
              /\ Cardinality(RowsBy(db, t)) # Len(ExtractKeywords(c.content))
         THEN [c EXCEPT !.outcome = "lost"]
         ELSE [c EXCEPT !.outcome = how]

\* Every database call of a coroutine is one operation handed to the
\* connection's worker thread, which runs the operations in the order they
\* were queued. A coroutine has one operation in the queue at a time and
\* queues its next one when the result of the previous one reaches it.
NextUp(t) == queue # <<>> /\ Head(queue) = t

\* the call after its operation has run: a cancelled task gets the
\* CancelledError in place of the result and ends
Resumed(t, c) == IF calls[t].cancelled THEN Return(c, "timeout") ELSE c

Requeue(t, c) ==
    IF Running(Resumed(t, c)) THEN Append(Tail(queue), t) ELSE Tail(queue)

\* index_document: existing_doc = await get_document_by_path(file_path)
GetDocumentByPath(t) ==
    /\ NextUp(t) /\ calls[t].stage = "lookup"
    /\ LET found == {r \in db.documents : r.file_path = calls[t].path}
           id == IF found = {} THEN 0 ELSE (CHOOSE r \in found : TRUE).id
           c == Enter([calls[t] EXCEPT !.existing = id], "doc")
       IN /\ calls' = [calls EXCEPT ![t] = Resumed(t, c)]
          /\ queue' = Requeue(t, c)
    /\ UNCHANGED <<db, saved, in_txn, txn_owner>>
    /\ UNCHANGED <<script, watcherVars, scoringVars, searchVars, stopVars, toolVars, hostVars>>

\* get_search_cache: the SELECT; a row leads to _update_cache_hit_count,
\* no row sends searchDocuments on to the index
FetchSearchCache(t) ==
    /\ NextUp(t) /\ calls[t].stage = "fetch"
    /\ LET hash == IF calls[t].kind = "query" THEN QueryTerm ELSE "q"
           found == {r \in db.search_cache : r.query_hash = hash /\ ~r.expired}
           c == IF found = {}
                THEN IF calls[t].kind = "query"
                     THEN [calls[t] EXCEPT !.stage = "scan"]
                     ELSE Return(calls[t], "miss")
                ELSE [calls[t] EXCEPT
                         !.stage = "hit", !.phase = "stmt",
                         !.target = (CHOOSE r \in found : TRUE).id]
       IN /\ calls' = [calls EXCEPT ![t] = Resumed(t, c)]
          /\ queue' = Requeue(t, c)
    /\ UNCHANGED <<db, saved, in_txn, txn_owner>>
    /\ UNCHANGED <<script, watcherVars, scoringVars, searchVars, stopVars, toolVars, hostVars>>

\* transaction(): await connection.execute("BEGIN"), before the try block;
\* SQLite refuses a BEGIN while the connection has a transaction open
TxnBegin(t) ==
    /\ NextUp(t) /\ calls[t].phase = "begin"
    /\ LET c == IF in_txn THEN AfterRaise(calls[t])
                ELSE [calls[t] EXCEPT !.phase = "stmt"]
       IN /\ calls' = [calls EXCEPT ![t] = Resumed(t, c)]
          /\ queue' = Requeue(t, c)
    /\ IF in_txn
       THEN UNCHANGED <<db, saved, in_txn, txn_owner>>
       ELSE /\ saved' = db
            /\ in_txn' = TRUE
            /\ txn_owner' = t
            /\ UNCHANGED db
    /\ UNCHANGED <<script, watcherVars, scoringVars, searchVars, stopVars, toolVars, hostVars>>

\* the body of the with block: one execute or executemany on the shared
\* connection, in whatever transaction the connection has open
TxnStmt(t) ==
    /\ NextUp(t) /\ calls[t].phase = "stmt"
    /\ LET r == StageStmt(t, db)
           c == IF r.ok THEN [calls[t] EXCEPT !.phase = "commit", !.n = r.n]
                ELSE [calls[t] EXCEPT !.phase = "rollback"]
       IN /\ db' = r.db
          /\ calls' = [calls EXCEPT ![t] = Resumed(t, c)]
          /\ queue' = Requeue(t, c)
    /\ UNCHANGED <<saved, in_txn, txn_owner>>
    /\ UNCHANGED <<script, watcherVars, scoringVars, searchVars, stopVars, toolVars, hostVars>>

\* transaction(): await connection.commit() -- also the bare commit of
\* _update_cache_hit_count; it commits whatever the connection has open
TxnCommit(t) ==
    /\ NextUp(t) /\ calls[t].phase = "commit"
    /\ saved' = EmptyDb
    /\ in_txn' = FALSE
    /\ txn_owner' = NoCall
    /\ LET c == AfterCommit(Ended(t, calls[t], "committed"))
       IN /\ calls' = [calls EXCEPT ![t] = Resumed(t, c)]
          /\ queue' = Requeue(t, c)
    /\ UNCHANGED db
    /\ UNCHANGED <<script, watcherVars, scoringVars, searchVars, stopVars, toolVars, hostVars>>

\* transaction(): except Exception: await connection.rollback(); raise
TxnRollback(t) ==
    /\ NextUp(t) /\ calls[t].phase = "rollback"
    /\ db' = Committed
    /\ saved' = EmptyDb
    /\ in_txn' = FALSE
    /\ txn_owner' = NoCall
    /\ LET c == AfterRaise(Ended(t, calls[t], "rolled_back"))
       IN /\ calls' = [calls EXCEPT ![t] = Resumed(t, c)]
          /\ queue' = Requeue(t, c)
    /\ UNCHANGED <<script, watcherVars, scoringVars, searchVars, stopVars, toolVars, hostVars>>

\* BaseMCPTool.execute: asyncio.wait_for times out and cancels the handler
\* at the await it is suspended in. The operation it has queued still
\* runs; CancelledError is not an Exception, so neither the commit nor the
\* rollback of transaction() follows it.
Timeout(t) ==
    /\ Running(calls[t]) /\ calls[t].kind \in {"index", "search", "query"}
    /\ ~calls[t].cancelled
    /\ Cardinality({u \in CallIds : calls[u].cancelled
                                      \/ calls[u].result = "timeout"})
           < MaxTimeouts
    /\ calls' = [calls EXCEPT ![t].cancelled = TRUE]
    /\ UNCHANGED <<db, saved, in_txn, txn_owner, queue>>
    /\ UNCHANGED <<script, watcherVars, scoringVars, searchVars, stopVars, toolVars, hostVars>>

NextStore ==
    \/ \E t \in CallIds, i \in 1..Len(Requests) : Invoke(t, i)
    \/ \E t \in CallIds : GetDocumentByPath(t)
    \/ \E t \in CallIds : FetchSearchCache(t)
    \/ \E t \in CallIds : TxnBegin(t)
    \/ \E t \in CallIds : TxnStmt(t)
    \/ \E t \in CallIds : TxnCommit(t)
    \/ \E t \in CallIds : TxnRollback(t)
    \/ \E t \in CallIds : Timeout(t)

(***************************************************************************)
(* Scoring: the entries _index_document_keywords builds for a text         *)
(***************************************************************************)
MaxWords == 3
MaxRuns == 2

Vocabulary == {"foo", "bar", "the"}

InitScoringVars ==
    /\ text = <<>>
    /\ search_entries = <<>>

\* the text gets one more whitespace-separated word
TypeWord(w) ==
    /\ Len(text) < MaxWords
    /\ text' = Append(text, <<w>>)
    /\ search_entries' = <<>>
    /\ UNCHANGED <<watcherVars, storeVars, searchVars, stopVars, toolVars, hostVars>>

\* the last word of the text gets one more run, joined by a hyphen
JoinRun(w) ==
    /\ text # <<>>
    /\ Len(text[Len(text)]) < MaxRuns
    /\ text' = [text EXCEPT ![Len(text)] = Append(@, w)]
    /\ search_entries' = <<>>
    /\ UNCHANGED <<watcherVars, storeVars, searchVars, stopVars, toolVars, hostVars>>

\* _index_document_keywords(document_id, content) builds search_entries
IndexDocumentKeywords ==
    /\ text # <<>>
    /\ search_entries' = SearchEntries(1, text, NoCall)
    /\ UNCHANGED text
    /\ UNCHANGED <<watcherVars, storeVars, searchVars, stopVars, toolVars, hostVars>>

NextScoring ==
    \/ \E w \in Vocabulary : TypeWord(w)
    \/ \E w \in Vocabulary : JoinRun(w)
    \/ IndexDocumentKeywords

(***************************************************************************)
(* Search: SearchDocumentsTool, its cache and the clock                    *)
(***************************************************************************)
TicksPerSecond == 2
search_cache_ttl_minutes == 30
MaxTtls == 2
MaxDocs == 2
MaxHits == 1
MaxEntries == 3

\* the cache lifetime in ticks
Ttl == search_cache_ttl_minutes * 60 * TicksPerSecond

\* the hosts run one hour behind UTC, on UTC, or one hour ahead of it
UtcOffsets == {(0 - 3600) * TicksPerSecond, 0, 3600 * TicksPerSecond}

MaxClock == MaxTtls * Ttl + TicksPerSecond

Terms == {"foo", "bar"}
Limits == {10}

NoEntry == [id |-> 0, query_hash |-> <<>>, results |-> <<>>,
            created_at |-> 0, expires_at |-> 0, hit_count |-> 0,
            made |-> <<>>]

NoResponse == [data |-> <<>>, entry |-> NoEntry, at |-> 0]

InitSearchVars ==
    /\ InitStopVars /\ InitToolVars /\ InitHostVars
    /\ clock = 0
    /\ tz = 0
    /\ cache = [rows |-> {}, seq |-> 0]
    /\ response = NoResponse

\* datetime.now(): the host's naive local time
LocalNow == clock + tz

\* SQLite's datetime('now'): UTC, cut to whole seconds
SqlNow == clock - (clock % TicksPerSecond)

\* expires_at > datetime('now'). expires_at is the text the sqlite3 adapter
\* wrote for a naive local datetime, 'YYYY-MM-DD HH:MM:SS.ffffff'; the
\* comparison is between the two texts, which order as the instants they
\* spell do.
ExpiresAfterNow(expires_at) == expires_at > SqlNow

\* _generate_cache_key: the md5 of "query|limit|file_type|sort_by", taken to
\* be free of collisions
GenerateCacheKey(query, limit) == <<query, limit>>

\* str.count(term) on the lowered content
Occurrences(content, term) == Len(PositionsOf(Flatten(content), term))

\* SearchQueries.search_documents for one keyword: the documents joined with
\* their index row for it, each with SUM(relevance_score * frequency)
MatchingRows(d, term) ==
    {[doc |-> r, num |-> x.num * x.frequency, den |-> x.den] :
        <<r, x>> \in {y \in d.documents \X d.search_index :
                         y[2].document_id = y[1].id /\ y[2].keyword = term}}

\* _rank_and_filter_results: 0.4 * base + 0.3 * title + 0.2 * content
\* + 0.1 * recency, as a fraction over 10 * den. No file name of the model
\* holds a term and every document is less than a week old.
FinalScore(m, term) ==
    [num |-> 4 * m.num + Min(Occurrences(m.doc.content, term), 10) * m.den
                 + 5 * m.den,
     den |-> 10 * m.den]

\* a ranks before b: higher final score, then the later document
RanksBefore(a, b, term) ==
    LET fa == FinalScore(a, term)
        fb == FinalScore(b, term)
    IN \/ fa.num * fb.den > fb.num * fa.den
       \/ fa.num * fb.den = fb.num * fa.den /\ a.doc.id > b.doc.id

RECURSIVE Ranked(_, _)
Ranked(ms, term) ==
    IF ms = {} THEN <<>>
    ELSE LET top == CHOOSE a \in ms :
                        \A b \in ms \ {a} : RanksBefore(a, b, term)
         IN <<top>> \o Ranked(ms \ {top}, term)

\* _format_search_results: one dict per document, with the metadata that
\* get_document_metadata reads for it
FormatSearchResult(d, m) ==
    [document_id |-> m.doc.id, file_path |-> m.doc.file_path,
     content_snippet |-> m.doc.content,
     metadata |-> {[key |-> x.key, value |-> x.value] :
                      x \in {y \in d.document_metadata :
                                y.document_id = m.doc.id}}]

\* the response_data dict that _execute_tool builds on a cache miss
ResponseData(d, term, limit) ==
    LET ms == MatchingRows(d, term)
        ranked == Ranked(ms, term)
        final == SubSeq(ranked, 1, Min(limit, Len(ranked)))
    IN [results |-> [i \in 1..Len(final) |-> FormatSearchResult(d, final[i])],
        total_found |-> Cardinality(ms),
        returned_count |-> Len(final),
        query_processed |-> term,
        from_cache |-> FALSE]

ResponseKeys == <<"results", "total_found", "returned_count",
                  "query_processed", "from_cache">>

\* json.dumps of a dict whose results are written as the empty list
JsonDumpsEmptyResults(data) ==
    [i \in 1..Len(ResponseKeys) |->
        [k |-> ResponseKeys[i],
         v |-> IF ResponseKeys[i] = "results" THEN <<>>
               ELSE data[ResponseKeys[i]]]]

\* json.dumps(results): the members of the dict in insertion order
JsonDumps(data) ==
    [i \in 1..Len(ResponseKeys) |->
        [k |-> ResponseKeys[i], v |-> data[ResponseKeys[i]]]]

\* json.loads: a dict with the keys of the text; the last member of a key
\* gives its value
JsonLoads(members) ==
    [key \in {members[i].k : i \in 1..Len(members)} |->
        LET last == CHOOSE i \in 1..Len(members) :
                        /\ members[i].k = key
                        /\ \A j \in (i + 1)..Len(members) : members[j].k # key
        IN members[last].v]

\* get_search_cache: the rows that match the hash and have not expired
LiveEntries(query_hash) ==
    {r \in cache.rows : r.query_hash = query_hash
                            /\ ExpiresAfterNow(r.expires_at)}

\* INSERT OR REPLACE INTO search_cache: query_hash is UNIQUE, the CHECK
\* wants expires_at > created_at; made remembers the dict that was dumped
CreateSearchCache(query_hash, data) ==
    LET row == [id |-> cache.seq + 1, query_hash |-> query_hash,
                results |-> JsonDumps(data), created_at |-> LocalNow,
                expires_at |-> LocalNow + Ttl, hit_count |-> 0,
                made |-> data]
    IN IF row.expires_at > row.created_at
       THEN [rows |-> {r \in cache.rows : r.query_hash # query_hash}
                          \cup {row},
             seq |-> cache.seq + 1]
       ELSE cache

\* DELETE FROM search_cache WHERE expires_at <= datetime('now')
SweepExpired(c) ==
    [c EXCEPT !.rows = {r \in @ : ExpiresAfterNow(r.expires_at)}]

\* SearchDocumentsTool._execute_tool(query, limit), run alone
SearchDocuments(term, limit) ==
    LET key == GenerateCacheKey(term, limit)
        live == LiveEntries(key)
    IN /\ \A r \in live : r.hit_count < MaxHits
       /\ live = {} => cache.seq < MaxEntries
       /\ IF live # {}
          THEN LET row == CHOOSE r \in live : TRUE
                   cached_result == JsonLoads(row.results)
               IN /\ cache' = [cache EXCEPT !.rows = (@ \ {row}) \cup
                                  {[row EXCEPT !.hit_count = @ + 1]}]
                  /\ response' =
                        [data |-> [cached_result EXCEPT !.from_cache = TRUE],
                         entry |-> row, at |-> clock]
          ELSE LET data == ResponseData(db, term, limit)
               IN /\ cache' = CreateSearchCache(key, data)
                  /\ response' = [data |-> data, entry |-> NoEntry,
                                  at |-> clock]
       /\ UNCHANGED <<clock, tz>>
       /\ UNCHANGED <<storeVars, watcherVars, scoringVars, stopVars, toolVars, hostVars>>

\* DocumentManager.index_document(file_path, content, metadata) run alone:
\* each query method commits its own transaction, the last step is
\* _invalidate_search_cache
IndexDocumentAlone(d, path, content) ==
    LET found == {r \in d.documents : r.file_path = path}
        old == IF found = {} THEN 0 ELSE (CHOOSE r \in found : TRUE).id
        s1 == IF old = 0 THEN InsertDocument(d, path, content)
              ELSE UpdateDocument(d, old, path, content)
        id == IF old = 0 THEN s1.n ELSE old
        s2 == BulkInsertMetadata(s1.db, id, MetadataFor(content))
        s3 == DeleteSearchIndex(s2.db, id)
        s4 == BulkInsertSearchIndex(s3.db, SearchEntries(id, content, NoCall))
    IN [db |-> IF s4.ok THEN s4.db ELSE s3.db, doc_id |-> id]

\* DocumentManager.delete_document(document_id) run alone
DeleteDocumentAlone(d, id) ==
    LET s1 == DeleteSearchIndex(d, id)
        s2 == DeleteMetadata(s1.db, id)
        s3 == DeleteDocumentRow(s2.db, id)
    IN [db |-> s3.db, ok |-> s3.n > 0]

IndexDocument(path, content) ==
    /\ \/ \E r \in db.documents : r.file_path = path
       \/ db.seq < MaxDocs
    /\ db' = IndexDocumentAlone(db, path, content).db
    /\ cache' = SweepExpired(cache)
    /\ UNCHANGED <<clock, tz, response>>
    /\ UNCHANGED <<saved, in_txn, txn_owner, calls, queue, script>>
    /\ UNCHANGED <<watcherVars, scoringVars, stopVars, toolVars, hostVars>>

DeleteDocument(id) ==
    /\ id \in DocIds(db)
    /\ db' = DeleteDocumentAlone(db, id).db
    /\ cache' = SweepExpired(cache)
    /\ UNCHANGED <<clock, tz, response>>
    /\ UNCHANGED <<saved, in_txn, txn_owner, calls, queue, script>>
    /\ UNCHANGED <<watcherVars, scoringVars, stopVars, toolVars, hostVars>>

\* time passes: a tick inside the first second after a multiple of the
\* cache lifetime, or a whole lifetime
Advance(k) ==
    /\ clock + k <= MaxClock
    /\ k = 1 => (clock % Ttl) < TicksPerSecond
    /\ clock' = clock + k
    /\ UNCHANGED <<tz, cache, response>>
    /\ UNCHANGED <<storeVars, watcherVars, scoringVars, stopVars, toolVars, hostVars>>

NextSearch ==
    \/ \E term \in Terms, limit \in Limits : SearchDocuments(term, limit)
    \/ \E content \in {DocA, DocD} : IndexDocument("a.md", content)
    \/ IndexDocument("b.md", DocB)
    \/ \E id \in 1..MaxDocs : DeleteDocument(id)
    \/ \E k \in {1, Ttl} : Advance(k)

(***************************************************************************)
(* Search: searchDocuments on the pooled connection                        *)
(***************************************************************************)
\* _execute_tool: search_results = await search_documents(query, ...); the
\* ranking and the result dicts are built from the rows of this SELECT
ScanDocuments(t) ==
    /\ NextUp(t) /\ calls[t].stage = "scan"
    /\ LET data == ResponseData(db, QueryTerm, 10)
           c == IF data.results = <<>>
                THEN Enter([calls[t] EXCEPT !.seen = data], "store")
                ELSE [calls[t] EXCEPT !.seen = data, !.stage = "qmeta",
                                      !.n = 1]
       IN /\ calls' = [calls EXCEPT ![t] = Resumed(t, c)]
          /\ queue' = Requeue(t, c)
    /\ UNCHANGED <<db, saved, in_txn, txn_owner>>
    /\ UNCHANGED <<script, watcherVars, scoringVars, searchVars, stopVars, toolVars, hostVars>>

\* _format_search_results: metadata = await get_document_metadata(id), one
\* SELECT for each result in turn
ReadMetadata(t) ==
    /\ NextUp(t) /\ calls[t].stage = "qmeta"
    /\ LET i == calls[t].n
           id == calls[t].seen.results[i].document_id
           metadata == {[key |-> x.key, value |-> x.value] :
                           x \in {y \in db.document_metadata :
                                     y.document_id = id}}
           got == [calls[t] EXCEPT !.seen.results[i].metadata = metadata]
           c == IF i < Len(got.seen.results)
                THEN [got EXCEPT !.n = i + 1]
                ELSE Enter(got, "store")
       IN /\ calls' = [calls EXCEPT ![t] = Resumed(t, c)]
          /\ queue' = Requeue(t, c)
    /\ UNCHANGED <<db, saved, in_txn, txn_owner>>
    /\ UNCHANGED <<script, watcherVars, scoringVars, searchVars, stopVars, toolVars, hostVars>>

NextSearchRace ==
    \/ NextStore
    \/ \E t \in CallIds : ScanDocuments(t)
    \/ \E t \in CallIds : ReadMetadata(t)

\* the requests that write documents or touch the cache row of "q"
StoreRequests ==
    {i \in 1..Len(Requests) : Requests[i].kind \notin {"query", "create"}}

\* any MaxCalls requests
AnyRequests ==
    [t \in CallIds |-> IF t <= MaxCalls THEN StoreRequests ELSE {}]

\* a.md is re-indexed with text DocB or DocC while searchDocuments runs
SearchRace == [t \in CallIds |-> IF t <= 2 THEN {1, 2, 6} ELSE {}]

\* a.md is re-indexed with text DocC while a search client repeats its
\* query and the document is deleted; afterwards a.md is indexed again
DeleteRace ==
    LET race == <<{2}, {5}, {4}, {2}>>
    IN [t \in CallIds |-> IF t \in DOMAIN race THEN race[t] ELSE {}]

\* three clients, each ingesting the new file b.md or searching
IngestRace == [t \in CallIds |-> IF t <= 3 THEN {3, 5} ELSE {}]

\* three coroutines gathered, each calling create_document for a path of
\* its own with one text or another
CreateRace ==
    [t \in CallIds |-> IF t <= 3 THEN {5 + 2 * t, 6 + 2 * t} ELSE {}]

\* what create_document runs: transaction() around one INSERT
NextCreateRace ==
    \/ \E t \in CallIds, i \in 1..Len(Requests) : Invoke(t, i)
    \/ \E t \in CallIds : TxnBegin(t)
    \/ \E t \in CallIds : TxnStmt(t)
    \/ \E t \in CallIds : TxnCommit(t)

InitCreateRace ==
    /\ script = CreateRace
    /\ InitStoreVars /\ InitWatcherVars /\ batch_processing = FALSE
    /\ InitScoringVars /\ InitSearchVars

InitStore ==
    /\ script = AnyRequests
    /\ InitStoreVars /\ InitWatcherVars /\ batch_processing = FALSE
    /\ InitScoringVars /\ InitSearchVars

InitDeleteRace ==
    /\ script = DeleteRace
    /\ InitStoreVars /\ InitWatcherVars /\ batch_processing = FALSE
    /\ InitScoringVars /\ InitSearchVars

InitIngestRace ==
    /\ script = IngestRace
    /\ InitStoreVars /\ InitWatcherVars /\ batch_processing = FALSE
    /\ InitScoringVars /\ InitSearchVars

InitSearchRace ==
    /\ script = SearchRace
    /\ InitStoreVars /\ InitWatcherVars /\ batch_processing = FALSE
    /\ InitScoringVars /\ InitSearchVars

(***************************************************************************)
(* FileWatcher._handle_file_event: what the watcher does for an event      *)
(***************************************************************************)
MaxHandled == 3

\* the methods of DocumentQueries and the attributes of ToolResult: a call
\* or a read of any other name raises AttributeError
DocumentQueriesMethods ==
    {"create_document", "get_document", "get_document_by_path",
     "update_document", "delete_document", "list_documents",
     "count_documents"}

ToolResultAttributes ==
    {"success", "data", "error", "execution_time_ms", "metadata"}

\* what the index tool does with the file: fault says whether _execute_tool
\* raises, returns an error result, or indexes the file, which gives the
\* database indexed
ExecuteIndexTool(d, indexed, fault) ==
    CASE fault = "tool raises" -> [db |-> d, raised |-> TRUE, success |-> FALSE]
      [] fault = "tool error" -> [db |-> d, raised |-> FALSE, success |-> FALSE]
      [] OTHER -> [db |-> indexed, raised |-> FALSE, success |-> TRUE]

\* FileWatcher._index_document: result is the boolean it returns, failed
\* that the tool raised or reported an error
WatcherIndex(d, indexed, fault) ==
    LET run == ExecuteIndexTool(d, indexed, fault)
        read == IF run.raised \/ "is_success" \notin ToolResultAttributes
                THEN FALSE ELSE run.success
    IN [db |-> run.db, result |-> read, failed |-> ~run.success]

HandleFileCreated(d, e, indexed, fault) ==
    LET r == WatcherIndex(d, indexed, fault)
    IN [db |-> r.db, failed |-> r.failed,
        action |-> IF r.result THEN "indexed" ELSE "skipped"]

HandleFileModified(d, e, indexed, fault) ==
    IF fault = "store raises"
    THEN [db |-> d, failed |-> TRUE, action |-> "None"]
    ELSE LET existing == \E r \in d.documents : r.file_path = e.file_path
             r == WatcherIndex(d, indexed, fault)
         IN [db |-> r.db, failed |-> r.failed,
             action |-> IF ~r.result THEN "skipped"
                        ELSE IF existing THEN "updated" ELSE "indexed"]

\* doc_queries.delete_document_by_path(file_path), inside try/except
HandleFileDeleted(d, e, fault) ==
    IF "delete_document_by_path" \notin DocumentQueriesMethods
       \/ fault = "store raises"
    THEN [db |-> d, failed |-> TRUE, action |-> "None"]
    ELSE LET found == {r \in d.documents : r.file_path = e.file_path}
         IN IF found = {}
            THEN [db |-> d, failed |-> FALSE, action |-> "not_found"]
            ELSE [db |-> DeleteDocumentRow(d, (CHOOSE r \in found : TRUE).id).db,
                  failed |-> FALSE, action |-> "deleted"]

\* the old path is known and doc_queries.update_document_path can be called
PathRewritten(d, e) ==
    /\ e.event_type = "moved"
    /\ \E r \in d.documents : r.file_path = e.old_path
    /\ "update_document_path" \in DocumentQueriesMethods

\* doc_queries.update_document_path(existing_doc.id, file_path)
UpdateDocumentPath(d, e) ==
    [d EXCEPT !.documents = {IF r.file_path = e.old_path
                             THEN [r EXCEPT !.file_path = e.file_path]
                             ELSE r : r \in d.documents}]

\* the old path is looked up; a known document has its path rewritten and
\* is indexed again, anything else is indexed as a new file
HandleFileMoved(d, e, indexed, fault) ==
    IF fault = "store raises"
    THEN [db |-> d, failed |-> TRUE, action |-> "None"]
    ELSE IF \E r \in d.documents : r.file_path = e.old_path
    THEN IF ~PathRewritten(d, e)
         THEN [db |-> d, failed |-> TRUE, action |-> "None"]
         ELSE LET r == WatcherIndex(UpdateDocumentPath(d, e), indexed, fault)
              IN [db |-> r.db, failed |-> r.failed, action |-> "moved"]
    ELSE LET r == WatcherIndex(d, indexed, fault)
         IN [db |-> r.db, failed |-> r.failed,
             action |-> IF r.result THEN "indexed" ELSE "skipped"]

\* _handle_file_event: the statistics after an action that is not None
UpdateStatistics(st, action) ==
    IF action = "None" THEN st
    ELSE LET counted == [st EXCEPT !.total_events_processed = @ + 1]
         IN CASE action = "indexed" -> [counted EXCEPT !.files_indexed = @ + 1]
              [] action = "updated" -> [counted EXCEPT !.files_updated = @ + 1]
              [] action = "deleted" -> [counted EXCEPT !.files_deleted = @ + 1]
              [] action = "moved" -> [counted EXCEPT !.files_moved = @ + 1]
              [] OTHER -> counted

\* _handle_file_event(file_event), called by _process_single_event: the
\* handlers catch every Exception themselves, so the except clause that
\* counts indexing_errors is reached by none of them
HandleFileEvent(event_type, file_path, content, fault) ==
    /\ handled.count < MaxHandled
    /\ LET e == [event_type |-> event_type, file_path |-> file_path,
                 old_path |-> IF event_type = "moved"
                              THEN CHOOSE q \in Paths : q # file_path
                              ELSE "none"]
           had == \E r \in db.documents : r.file_path = file_path
           indexed == IndexDocumentAlone(
                          IF PathRewritten(db, e)
                          THEN UpdateDocumentPath(db, e) ELSE db,
                          file_path, content).db
           r == CASE event_type = "created" ->
                         HandleFileCreated(db, e, indexed, fault)
                  [] event_type = "modified" ->
                         HandleFileModified(db, e, indexed, fault)
                  [] event_type = "deleted" -> HandleFileDeleted(db, e, fault)
                  [] OTHER -> HandleFileMoved(db, e, indexed, fault)
       IN /\ db' = r.db
          /\ stats' = UpdateStatistics(stats, r.action)
          /\ handled' = [count |-> handled.count + 1,
                         failed |-> handled.failed \/ r.failed,
                         errors |-> handled.errors
                                       + (IF r.failed THEN 1 ELSE 0),
                         last |-> [event_type |-> e.event_type,
                                   file_path |-> e.file_path,
                                   old_path |-> e.old_path, had |-> had,
                                   action |-> r.action]]
    /\ UNCHANGED <<saved, in_txn, txn_owner, calls, queue, script>>
    /\ UNCHANGED <<watcherVars, scoringVars, searchVars, stopVars, toolVars>>
    /\ UNCHANGED <<migrationVars, poolVars, serviceVars>>

NextDispatch ==
    \E event_type \in {"created", "modified", "deleted", "moved"},
       file_path \in Paths, content \in {DocB, DocD},
       fault \in {"none", "tool raises", "tool error", "store raises"} :
        HandleFileEvent(event_type, file_path, content, fault)

InitDispatch ==
    /\ InitWatcherVars /\ batch_processing = FALSE
    /\ script = AnyRequests /\ InitStoreVars /\ InitScoringVars
    /\ InitSearchVars

SpecDispatch == InitDispatch /\ [][NextDispatch]_vars

(***************************************************************************)
(* Migrations: MigrationManager on the aiosqlite connection that           *)
(* DatabaseConnection.connect opens with isolation_level=None              *)
(***************************************************************************)
\* DatabaseSchema.SCHEMA_VERSION
SCHEMA_VERSION == 1

\* what DatabaseSchema.get_all_ddl_statements and Migration001_Initial create
CoreTables ==
    {"documents", "document_metadata", "search_index", "search_cache"}

CoreObjects == CoreTables \cup {"documents_fts", "indexes", "fts_triggers"}

\* what Migration002_AddDocumentTags creates
TagObjects == {"document_tags", "idx_document_tags_tag"}

\* MigrationManager._migrations after _register_built_in_migrations
Migrations == {1, 2}

\* the versions of S in ascending order: sorted(...)
RECURSIVE Sorted(_)
Sorted(S) ==
    IF S = {} THEN <<>>
    ELSE LET least == CHOOSE v \in S : \A w \in S : v <= w
         IN <<least>> \o Sorted(S \ {least})

\* sorted(..., reverse=True)
RECURSIVE SortedReverse(_)
SortedReverse(S) ==
    IF S = {} THEN <<>>
    ELSE LET most == CHOOSE v \in S : \A w \in S : v >= w
         IN <<most>> \o SortedReverse(S \ {most})

\* the connection as a coroutine finds it: db is what its statements see,
\* saved is what ROLLBACK restores while a transaction is open, raised tells
\* that a statement raised and the rest of the try block was skipped
Session(s) == [db |-> s, saved |-> s, in_txn |-> FALSE, raised |-> FALSE]

\* one statement on the connection.  SQLite refuses PRAGMA synchronous inside
\* a transaction and BEGIN inside a transaction; a statement on
\* schema_migrations needs the table; with isolation_level=None a statement
\* outside a transaction is committed as it is executed
Execute(c, st) ==
    CASE st.op = "BEGIN" ->
             IF c.in_txn THEN [c EXCEPT !.raised = TRUE]
             ELSE [c EXCEPT !.saved = c.db, !.in_txn = TRUE]
      [] st.op = "COMMIT" -> [c EXCEPT !.in_txn = FALSE]
      [] st.op = "PRAGMAS" ->
             IF c.in_txn THEN [c EXCEPT !.raised = TRUE] ELSE c
      [] st.op = "CREATE" ->
             [c EXCEPT !.db.objects = @ \cup st.names]
      [] st.op = "DROP" -> [c EXCEPT !.db.objects = @ \ st.names]
      [] st.op = "INSERT" ->
             IF "schema_migrations" \in c.db.objects
             THEN [c EXCEPT !.db.log = @ \cup {st.version}]
             ELSE [c EXCEPT !.raised = TRUE]
      [] st.op = "DELETE" ->
             IF "schema_migrations" \in c.db.objects
             THEN [c EXCEPT !.db.log = @ \ {st.version}]
             ELSE [c EXCEPT !.raised = TRUE]
      [] OTHER -> [c EXCEPT !.db.user_version = st.version]

\* the statements from the i-th on, up to the first that raises; fail_at is
\* the statement the database refuses (disk full, file locked), 0 for none
RECURSIVE ExecuteFrom(_, _, _, _)
ExecuteFrom(c, sts, i, fail_at) ==
    IF i > Len(sts) \/ c.raised THEN c
    ELSE IF i = fail_at THEN [c EXCEPT !.raised = TRUE]
    ELSE ExecuteFrom(Execute(c, sts[i]), sts, i + 1, fail_at)

\* connection.rollback(): nothing to undo once the transaction has ended
ConnectionRollback(c) ==
    [c EXCEPT !.db = IF c.in_txn THEN c.saved ELSE c.db, !.in_txn = FALSE]

\* DatabaseSchema.set_schema_version
SetSchemaVersion(version) ==
    <<[op |-> "USER_VERSION", version |-> version], [op |-> "COMMIT"]>>

\* DatabaseSchema.initialize_schema
InitializeSchema ==
    <<[op |-> "PRAGMAS"], [op |-> "CREATE", names |-> CoreObjects],
      [op |-> "COMMIT"]>>

\* Migration.upgrade of the registered migrations
Upgrade(version) ==
    IF version = 1
    THEN <<[op |-> "PRAGMAS"],
           [op |-> "CREATE", names |-> CoreTables],
           [op |-> "CREATE", names |-> {"documents_fts"}],
           [op |-> "CREATE", names |-> {"indexes"}],
           [op |-> "CREATE", names |-> {"fts_triggers"}],
           [op |-> "COMMIT"]>>
    ELSE <<[op |-> "CREATE", names |-> {"document_tags"}],
           [op |-> "CREATE", names |-> {"idx_document_tags_tag"}],
           [op |-> "COMMIT"]>>

\* Migration.rollback of the registered migrations; DROP TABLE takes the
\* indexes and triggers of the table with it
MigrationRollback(version) ==
    IF version = 1
    THEN <<[op |-> "DROP", names |-> {"fts_triggers"}],
           [op |-> "DROP", names |-> {"documents_fts"}],
           [op |-> "DROP",
            names |-> CoreTables \cup {"indexes", "fts_triggers"}],
           [op |-> "COMMIT"]>>
    ELSE <<[op |-> "DROP", names |-> TagObjects], [op |-> "COMMIT"]>>

\* the try block of apply_migration
ApplyMigration(version) ==
    <<[op |-> "BEGIN"]>> \o Upgrade(version)
        \o <<[op |-> "INSERT", version |-> version]>>
        \o SetSchemaVersion(version) \o <<[op |-> "COMMIT"]>>

\* the try block of rollback_migration
RollbackMigration(version) ==
    <<[op |-> "BEGIN"]>> \o MigrationRollback(version)
        \o <<[op |-> "DELETE", version |-> version]>>
        \o SetSchemaVersion(version - 1) \o <<[op |-> "COMMIT"]>>

\* apply_migration / rollback_migration with their except clause: the
\* connection afterwards
Attempt(s, sts, fail_at) ==
    LET c == ExecuteFrom(Session(s), sts, 1, fail_at)
    IN IF c.raised THEN ConnectionRollback(c) ELSE c

\* DatabaseConnection.connect with _initialize_schema: the file afterwards
ConnectSchema(conn, s) ==
    IF ~conn.connected /\ ~conn.is_initialized
       /\ s.user_version < SCHEMA_VERSION
    THEN ExecuteFrom(Session(s),
                     InitializeSchema \o SetSchemaVersion(SCHEMA_VERSION),
                     1, 0).db
    ELSE s

Connected == [connected |-> TRUE, is_initialized |-> TRUE]

\* get_pending_migrations, given what get_current_version returned
GetPendingMigrationsFromCurrent(current_version) ==
    Sorted({version \in Migrations : version >= current_version})

GetPendingMigrations(current_version) ==
    Sorted({version \in Migrations : version > current_version})

\* create_migration_table
CreateMigrationTable ==
    <<[op |-> "CREATE", names |-> {"schema_migrations"}], [op |-> "COMMIT"]>>

\* get_current_version: 0 when reading the version raised
GetCurrentVersion(s, read_raises) == IF read_raises THEN 0 ELSE s.user_version

\* DatabaseConnection.connect
Connect ==
    /\ ~db_connection.connected
    /\ database_file' = ConnectSchema(db_connection, database_file)
    /\ db_connection' = Connected
    /\ UNCHANGED migration
    /\ UNCHANGED <<watcherVars, storeVars, scoringVars, searchVars, stopVars,
                   toolVars, dispatchVars, poolVars, serviceVars>>

\* DatabaseConnection.close
Close ==
    /\ db_connection.connected
    /\ migration.result # "running"
    /\ db_connection' = [db_connection EXCEPT !.connected = FALSE]
    /\ UNCHANGED <<database_file, migration>>
    /\ UNCHANGED <<watcherVars, storeVars, scoringVars, searchVars, stopVars,
                   toolVars, dispatchVars, poolVars, serviceVars>>

\* the process ends and another starts on the same file
Restart ==
    /\ db_connection' = NotConnected
    /\ migration' = NoMigration
    /\ UNCHANGED database_file
    /\ UNCHANGED <<watcherVars, storeVars, scoringVars, searchVars, stopVars,
                   toolVars, dispatchVars, poolVars, serviceVars>>

\* migrate_to_latest, up to the loop over the pending migrations
MigrateToLatest(read_raises) ==
    /\ migration.result # "running"
    /\ LET connected == ConnectSchema(db_connection, database_file)
           s == ExecuteFrom(Session(connected), CreateMigrationTable, 1, 0).db
           pending == GetPendingMigrations(GetCurrentVersion(s, read_raises))
       IN /\ database_file' = s
          /\ migration' =
                 [op |-> "latest", target |-> 0, direction |-> "up",
                  todo |-> pending, done |-> <<>>,
                  result |-> IF pending = <<>> THEN "ok" ELSE "running",
                  start_version |-> s.user_version, before |-> s]
    /\ db_connection' = Connected
    /\ UNCHANGED <<watcherVars, storeVars, scoringVars, searchVars, stopVars,
                   toolVars, dispatchVars, poolVars, serviceVars>>

\* migrate_to_version(target_version), up to its loop
MigrateToVersion(target_version, read_raises) ==
    /\ migration.result # "running"
    /\ LET s == ConnectSchema(db_connection, database_file)
           current_version == GetCurrentVersion(s, read_raises)
           up == target_version > current_version
           todo ==
               IF up
               THEN Sorted({version \in Migrations :
                              /\ current_version < version
                              /\ version <= target_version})
               ELSE SortedReverse({version \in Migrations :
                                     /\ target_version < version
                                     /\ version <= current_version})
       IN /\ database_file' = s
          /\ migration' =
                 [op |-> "version", target |-> target_version,
                  direction |-> IF up THEN "up" ELSE "down",
                  todo |-> todo, done |-> <<>>,
                  result |-> IF todo = <<>> THEN "ok" ELSE "running",
                  start_version |-> s.user_version, before |-> s]
    /\ db_connection' = Connected
    /\ UNCHANGED <<watcherVars, storeVars, scoringVars, searchVars, stopVars,
                   toolVars, dispatchVars, poolVars, serviceVars>>

\* one turn of the loop of migrate_to_latest or migrate_to_version:
\* apply_migration or rollback_migration of the next version, and the
\* return on its failure
MigrationStep(fail_at) ==
    /\ migration.result = "running"
    /\ LET version == Head(migration.todo)
           sts == IF migration.direction = "up"
                  THEN ApplyMigration(version)
                  ELSE RollbackMigration(version)
           c == Attempt(database_file, sts, fail_at)
       IN /\ fail_at <= Len(sts)
          /\ database_file' = c.db
          /\ migration' =
                 IF c.raised
                 THEN [migration EXCEPT !.result = "failed",
                                        !.before = database_file]
                 ELSE [migration EXCEPT
                           !.todo = Tail(@), !.done = Append(@, version),
                           !.before = database_file,
                           !.result = IF Tail(migration.todo) = <<>>
                                      THEN "ok" ELSE "running"]
    /\ UNCHANGED db_connection
    /\ UNCHANGED <<watcherVars, storeVars, scoringVars, searchVars, stopVars,
                   toolVars, dispatchVars, poolVars, serviceVars>>

\* the most statements a try block of the manager executes
MaxStatements == Len(ApplyMigration(1))

NextMigrate ==
    \/ Connect
    \/ Close
    \/ Restart
    \/ \E read_raises \in BOOLEAN : MigrateToLatest(read_raises)
    \/ \E target_version \in 0..2, read_raises \in BOOLEAN :
           MigrateToVersion(target_version, read_raises)
    \/ \E fail_at \in 0..MaxStatements : MigrationStep(fail_at)

InitMigrate ==
    /\ InitWatcherVars /\ batch_processing = FALSE
    /\ script = AnyRequests /\ InitStoreVars /\ InitScoringVars
    /\ InitSearchVars

SpecMigrate == InitMigrate /\ [][NextMigrate]_vars

(***************************************************************************)
(* The connection pool: ConnectionManager and get_database_connection      *)
(***************************************************************************)
\* the default of max_connections
max_connections == 10

\* ConnectionManager(max_connections): the semaphore is created with
\* max_connections slots
NewManager(ceiling) ==
    [created |-> TRUE, max_connections |-> ceiling,
     available_slots |-> ceiling, connections |-> {}]

\* ConnectionManager.get_connection(database_path): the DatabaseConnection
\* of the path, created when missing; _connection_semaphore is not acquired
GetConnection(manager, database_path) ==
    [manager EXCEPT !.connections = @ \cup {database_path}]

\* get_database_connection(database_path) returns to the caller, who goes
\* on to use the connection it was given
GetDatabaseConnection(caller, database_path) ==
    /\ pool_users[caller] = "none"
    /\ connection_manager' =
           GetConnection(IF connection_manager.created
                         THEN connection_manager
                         ELSE NewManager(max_connections),
                         database_path)
    /\ pool_users' = [pool_users EXCEPT ![caller] = database_path]
    /\ UNCHANGED <<watcherVars, storeVars, scoringVars, searchVars, stopVars,
                   toolVars, dispatchVars, migrationVars, serviceVars>>

\* the caller has finished with the connection; nothing is handed back to
\* the manager
CallerDone(caller) ==
    /\ pool_users[caller] # "none"
    /\ pool_users' = [pool_users EXCEPT ![caller] = "none"]
    /\ UNCHANGED connection_manager
    /\ UNCHANGED <<watcherVars, storeVars, scoringVars, searchVars, stopVars,
                   toolVars, dispatchVars, migrationVars, serviceVars>>

\* close_all_connections(): close_all() and the global is None again
CloseAllConnections ==
    /\ connection_manager.created
    /\ connection_manager' = NoManager
    /\ UNCHANGED pool_users
    /\ UNCHANGED <<watcherVars, storeVars, scoringVars, searchVars, stopVars,
                   toolVars, dispatchVars, migrationVars, serviceVars>>

NextPool ==
    \/ \E caller \in Callers : GetDatabaseConnection(caller, "mydocs.db")
    \/ \E caller \in Callers : CallerDone(caller)
    \/ CloseAllConnections

InitPool ==
    /\ InitWatcherVars /\ batch_processing = FALSE
    /\ script = AnyRequests /\ InitStoreVars /\ InitScoringVars
    /\ InitSearchVars

SpecPool == InitPool /\ [][NextPool]_vars

(***************************************************************************)
(* MyDocsMCPServer: requests that find the tools not yet initialized, and  *)
(* stop()                                                                  *)
(***************************************************************************)
\* the tools whose _execute_tool keeps the connection it got from
\* transaction() over several awaits
WritingTools == {"indexDocument"}

\* _handle_call_tool up to its first await: a request that finds
\* _tools_registered False goes into _initialize_tools and waits in
\* create_document_manager
Arrive(r, name) ==
    /\ server.pc = "running"
    /\ requests[r].pc = "idle"
    /\ requests' = [requests EXCEPT ![r] =
           [NoRequest EXCEPT !.name = name,
                             !.pc = IF server.tools_registered
                                    THEN "lookup" ELSE "create_manager"]]
    /\ UNCHANGED <<server, migrationVars, poolVars>>
    /\ UNCHANGED <<watcherVars, storeVars, scoringVars, searchVars, stopVars,
                   toolVars, dispatchVars, besidesServer>>

\* create_document_manager has returned the manager on the pooled
\* connection; register_core_tools registers the three tools without
\* another await, or stops at the first register_tool that raises because
\* the name is taken and goes on to `await database_manager.close()`
ManagerCreated(r) ==
    /\ requests[r].pc = "create_manager"
    /\ connection_manager' =
           GetConnection(IF connection_manager.created
                         THEN connection_manager
                         ELSE NewManager(max_connections), "mydocs.db")
    /\ db_connection' = Connected
    /\ IF "indexDocument" \in server.tools
       THEN /\ requests' = [requests EXCEPT ![r].pc = "close_manager"]
            /\ UNCHANGED server
       ELSE /\ server' = [server EXCEPT
                   !.tools = @ \cup CoreTools,
                   !.registered = [name \in CoreTools |-> @[name] + 1],
                   !.tools_registered = TRUE]
            /\ requests' = [requests EXCEPT ![r].pc = "lookup"]
    /\ UNCHANGED <<database_file, migration, pool_users>>
    /\ UNCHANGED <<watcherVars, storeVars, scoringVars, searchVars, stopVars,
                   toolVars, dispatchVars, besidesServer>>

\* DocumentManager.close() of the request whose registration failed: it
\* closes the DatabaseConnection of the pool, the one every manager has;
\* a handler that is inside transaction() is left with a closed connection
ManagerClosed(r) ==
    /\ requests[r].pc = "close_manager"
    /\ db_connection' = [db_connection EXCEPT !.connected = FALSE]
    /\ requests' =
           [q \in 1..MaxRequests |->
               IF q = r THEN [requests[q] EXCEPT !.pc = "lookup"]
               ELSE IF requests[q].pc = "in_transaction"
               THEN [requests[q] EXCEPT !.lost = TRUE]
               ELSE requests[q]]
    /\ UNCHANGED <<server, database_file, migration, poolVars>>
    /\ UNCHANGED <<watcherVars, storeVars, scoringVars, searchVars, stopVars,
                   toolVars, dispatchVars, besidesServer>>

\* has_tool(tool_name), then execute_tool: the handler reaches the store;
\* connect() opens the connection again when it was closed
ToolBegins(r) ==
    /\ requests[r].pc = "lookup"
    /\ IF requests[r].name \notin server.tools
       THEN /\ requests' = [requests EXCEPT ![r].pc = "responded",
                                            ![r].isError = TRUE]
            /\ UNCHANGED db_connection
       ELSE /\ requests' = [requests EXCEPT ![r].pc =
                   IF requests[r].name \in WritingTools
                   THEN "in_transaction" ELSE "reading"]
            /\ db_connection' = Connected
    /\ UNCHANGED <<server, database_file, migration, poolVars>>
    /\ UNCHANGED <<watcherVars, storeVars, scoringVars, searchVars, stopVars,
                   toolVars, dispatchVars, besidesServer>>

\* the handler's next statement and its result: a statement on a closed
\* connection raises, and the tool answers with an error
ToolEnds(r) ==
    /\ requests[r].pc \in {"in_transaction", "reading"}
    /\ requests' = [requests EXCEPT ![r].pc = "responded",
                                    ![r].isError = requests[r].lost]
    /\ UNCHANGED <<server, migrationVars, poolVars>>
    /\ UNCHANGED <<watcherVars, storeVars, scoringVars, searchVars, stopVars,
                   toolVars, dispatchVars, besidesServer>>

\* _initialize_watcher: it needs the indexDocument tool
InitializeWatcher ==
    /\ server.pc = "running"
    /\ server.file_watcher = "none"
    /\ "indexDocument" \in server.tools
    /\ server' = [server EXCEPT !.file_watcher = "watching"]
    /\ UNCHANGED <<requests, migrationVars, poolVars>>
    /\ UNCHANGED <<watcherVars, storeVars, scoringVars, searchVars, stopVars,
                   toolVars, dispatchVars, besidesServer>>

\* stop(), first try block: the watcher is stopped and forgotten; stop()
\* runs in the finally clause of start_stdio_server, after server.run
StopFileWatcher ==
    /\ server.pc = "running"
    /\ \A r \in 1..MaxRequests : requests[r].pc \in {"idle", "responded"}
    /\ server' = [server EXCEPT !.file_watcher = "none",
                                !.pc = "watcher_stopped"]
    /\ UNCHANGED <<requests, migrationVars, poolVars>>
    /\ UNCHANGED <<watcherVars, storeVars, scoringVars, searchVars, stopVars,
                   toolVars, dispatchVars, besidesServer>>

\* stop(), second try block: ToolRegistry.cleanup clears the tools; stop()
\* returns
CleanupToolRegistry ==
    /\ server.pc = "watcher_stopped"
    /\ server' = [server EXCEPT !.tools = {}, !.pc = "stopped"]
    /\ UNCHANGED <<requests, migrationVars, poolVars>>
    /\ UNCHANGED <<watcherVars, storeVars, scoringVars, searchVars, stopVars,
                   toolVars, dispatchVars, besidesServer>>

NextServer ==
    \/ \E r \in 1..MaxRequests, name \in {"indexDocument", "getDocument"} :
           Arrive(r, name)
    \/ \E r \in 1..MaxRequests : ManagerCreated(r)
    \/ \E r \in 1..MaxRequests : ManagerClosed(r)
    \/ \E r \in 1..MaxRequests : ToolBegins(r)
    \/ \E r \in 1..MaxRequests : ToolEnds(r)
    \/ InitializeWatcher
    \/ StopFileWatcher
    \/ CleanupToolRegistry

InitServer ==
    /\ InitWatcherVars /\ batch_processing = FALSE
    /\ script = AnyRequests /\ InitStoreVars /\ InitScoringVars
    /\ InitSearchVars

SpecServer == InitServer /\ [][NextServer]_vars

(***************************************************************************)
(* BaseMCPTool.execute and its counters, on the indexDocument tool         *)
(***************************************************************************)
\* execute() has returned its ToolResult
Executed(call, counted, failed, outcome) ==
    metrics' = [call EXCEPT
        !.execution_count = IF counted THEN @ + 1 ELSE @,
        !.error_count = IF failed THEN @ + 1 ELSE @,
        !.pc = "idle", !.elapsed = 0, !.outcome = outcome,
        !.outcomes = @ \cup {outcome}]

\* execute() up to the first suspension: validate_parameters raises
\* ToolValidationError, or _execute_tool starts under asyncio.wait_for
ExecuteCalled(params) ==
    /\ metrics.pc = "idle"
    /\ metrics.calls < MaxExecutes
    /\ LET call == [metrics EXCEPT !.calls = @ + 1]
       IN IF ~ValidateParameters(ParameterSchema("indexDocument"), params)
          THEN Executed(call, FALSE, TRUE, "validation")
          ELSE metrics' = [call EXCEPT !.pc = "handler"]
    /\ UNCHANGED <<watcherVars, storeVars, scoringVars, searchVars, stopVars,
                   toolVars, dispatchVars, migrationVars, poolVars,
                   besidesMetrics>>

\* _execute_tool is still running a tick later
ExecuteToolRuns ==
    /\ metrics.pc = "handler"
    /\ metrics.elapsed < timeout_seconds
    /\ metrics' = [metrics EXCEPT !.elapsed = @ + 1]
    /\ UNCHANGED <<watcherVars, storeVars, scoringVars, searchVars, stopVars,
                   toolVars, dispatchVars, migrationVars, poolVars,
                   besidesMetrics>>

\* asyncio.wait_for raises TimeoutError: except asyncio.TimeoutError
ExecuteTimesOut ==
    /\ metrics.pc = "handler"
    /\ metrics.elapsed >= timeout_seconds
    /\ Executed(metrics, FALSE, TRUE, "timeout")
    /\ UNCHANGED <<watcherVars, storeVars, scoringVars, searchVars, stopVars,
                   toolVars, dispatchVars, migrationVars, poolVars,
                   besidesMetrics>>

\* _execute_tool ends: with a success result, with an error result, or by
\* raising an Exception (except Exception)
ExecuteToolEnds(outcome) ==
    /\ metrics.pc = "handler"
    /\ Executed(metrics, outcome \in {"success", "error result"},
                outcome # "success", outcome)
    /\ UNCHANGED <<watcherVars, storeVars, scoringVars, searchVars, stopVars,
                   toolVars, dispatchVars, migrationVars, poolVars,
                   besidesMetrics>>

NextExecute ==
    \/ \E params \in Arguments("indexDocument") : ExecuteCalled(params)
    \/ ExecuteToolRuns
    \/ ExecuteTimesOut
    \/ \E outcome \in {"success", "error result", "handler exception"} :
          ExecuteToolEnds(outcome)

InitExecute ==
    /\ InitWatcherVars /\ batch_processing = FALSE
    /\ script = AnyRequests /\ InitStoreVars /\ InitScoringVars
    /\ InitSearchVars

SpecExecute == InitExecute /\ [][NextExecute]_vars

(***************************************************************************)
(* FileWatcher.get_health_status                                           *)
(***************************************************************************)
\* the error rate as the fraction indexing_errors / total_events_processed,
\* 0 when nothing was processed
ErrorRate(st) ==
    IF st.total_events_processed > 0
    THEN <<st.indexing_errors, st.total_events_processed>>
    ELSE <<0, 1>>

\* error_rate > 0.1; the quotient of two small integers is above the
\* double 0.1 exactly when ten times the numerator is above the denominator
AboveTenPercent(rate) == 10 * rate[1] > rate[2]

\* get_health_status: is_healthy, issues and error_rate
GetHealthStatus(is_watching, observer_alive, st, missing) ==
    LET issues ==
            (IF ~is_watching THEN {"Watcher is not running"} ELSE {})
            \cup (IF is_watching /\ ~observer_alive
                  THEN {"Observer thread is not alive"} ELSE {})
            \cup (IF AboveTenPercent(ErrorRate(st))
                  THEN {"High error rate"} ELSE {})
            \cup (IF missing # {} THEN {"Invalid directories"} ELSE {})
    IN [healthy |-> issues = {}, issues |-> issues,
        error_rate |-> ErrorRate(st)]

\* FileWatcher.start: the observer is started when one directory at least
\* could be scheduled
FileWatcherStart ==
    /\ ~health.is_watching
    /\ health.missing # watch_directories
    /\ health' = [health EXCEPT !.is_watching = TRUE,
                                !.observer_alive = TRUE]
    /\ UNCHANGED <<watcherVars, storeVars, scoringVars, searchVars, stopVars,
                   toolVars, dispatchVars, migrationVars, poolVars,
                   besidesHealth>>

\* FileWatcher.stop
FileWatcherStop ==
    /\ health.is_watching
    /\ health' = [health EXCEPT !.is_watching = FALSE,
                                !.observer_alive = FALSE]
    /\ UNCHANGED <<watcherVars, storeVars, scoringVars, searchVars, stopVars,
                   toolVars, dispatchVars, migrationVars, poolVars,
                   besidesHealth>>

\* the observer thread ends under a running watcher
ObserverDies ==
    /\ health.is_watching /\ health.observer_alive
    /\ health' = [health EXCEPT !.observer_alive = FALSE]
    /\ UNCHANGED <<watcherVars, storeVars, scoringVars, searchVars, stopVars,
                   toolVars, dispatchVars, migrationVars, poolVars,
                   besidesHealth>>

\* a watched directory is removed, or created again
DirectoryChanges(directory) ==
    /\ health' = [health EXCEPT !.missing =
           IF directory \in @ THEN @ \ {directory} ELSE @ \cup {directory}]
    /\ UNCHANGED <<watcherVars, storeVars, scoringVars, searchVars, stopVars,
                   toolVars, dispatchVars, migrationVars, poolVars,
                   besidesHealth>>

\* an event reaches _handle_file_event of the running watcher
WatcherHandlesEvent(event_type, file_path, content, fault) ==
    /\ health.is_watching
    /\ HandleFileEvent(event_type, file_path, content, fault)

\* get_health_status is called
HealthStatusAsked ==
    /\ LET answer == GetHealthStatus(health.is_watching,
                                     health.observer_alive, stats,
                                     health.missing)
       IN health' = [health EXCEPT !.report =
              [asked |-> TRUE, healthy |-> answer.healthy,
               issues |-> answer.issues, error_rate |-> answer.error_rate,
               at |-> [is_watching |-> health.is_watching,
                       missing |-> health.missing,
                       errors |-> handled.errors,
                       count |-> handled.count]]]
    /\ UNCHANGED <<watcherVars, storeVars, scoringVars, searchVars, stopVars,
                   toolVars, dispatchVars, migrationVars, poolVars,
                   besidesHealth>>

NextHealth ==
    \/ FileWatcherStart
    \/ FileWatcherStop
    \/ ObserverDies
    \/ \E directory \in watch_directories : DirectoryChanges(directory)
    \/ \E event_type \in {"created", "deleted"}, file_path \in {"a.md"},
          fault \in {"none", "tool raises"} :
           WatcherHandlesEvent(event_type, file_path, DocB, fault)
    \/ HealthStatusAsked

InitHealth ==
    /\ InitWatcherVars /\ batch_processing = FALSE
    /\ script = AnyRequests /\ InitStoreVars /\ InitScoringVars
    /\ InitSearchVars

SpecHealth == InitHealth /\ [][NextHealth]_vars

(***************************************************************************)
(* Watcher specifications: the coalescing mode is fixed at construction    *)
(***************************************************************************)
NextDebounce ==
    \/ Tick
    \/ \E p \in Paths, ty \in EventTypes : HandleWithDebouncing(p, ty)
    \/ \E t \in TaskIds : DebouncedProcessStart(t)
    \/ \E t \in TaskIds : DebouncedProcessWake(t)
    \/ \E t \in TaskIds, ok \in BOOLEAN : DebouncedCallbackDone(t, ok)
    \/ \E t \in TaskIds : DebouncedProcessCancelled(t)

NextBatch ==
    \/ Tick
    \/ \E p \in Paths, ty \in EventTypes : HandleWithBatching(p, ty)
    \/ ProcessBatchStart
    \/ ProcessBatchWake
    \/ \E ok \in BOOLEAN : ProcessBatchCallbackDone(ok)

InitScoring ==
    /\ InitScoringVars
    /\ script = AnyRequests /\ InitStoreVars
    /\ InitWatcherVars /\ batch_processing = FALSE
    /\ InitSearchVars

InitDebounce ==
    /\ InitWatcherVars /\ batch_processing = FALSE
    /\ script = AnyRequests /\ InitStoreVars /\ InitScoringVars
    /\ InitSearchVars

InitBatch ==
    /\ InitWatcherVars /\ batch_processing = TRUE
    /\ script = AnyRequests /\ InitStoreVars /\ InitScoringVars
    /\ InitSearchVars

\* a watcher in either mode that is stopped at some moment
NextStop ==
    \/ Tick
    \/ TickWhileStopping
    \/ \E p \in Paths, ty \in EventTypes : WatchedEvent(p, ty)
    \/ \E t \in TaskIds : DebouncedProcessStart(t)
    \/ \E t \in TaskIds : DebouncedProcessWake(t)
    \/ \E t \in TaskIds, ok \in BOOLEAN : DebouncedCallbackDone(t, ok)
    \/ \E t \in TaskIds : DebouncedProcessCancelled(t)
    \/ ProcessBatchStart
    \/ ProcessBatchWake
    \/ \E ok \in BOOLEAN : ProcessBatchCallbackDone(ok)
    \/ StopCalled
    \/ StopGathered
    \/ StopFlushed

InitStop ==
    /\ InitWatcherVars /\ batch_processing \in BOOLEAN
    /\ script = AnyRequests /\ InitStoreVars /\ InitScoringVars
    /\ InitSearchVars

SpecStop == InitStop /\ [][NextStop]_vars

InitTools ==
    /\ InitWatcherVars /\ batch_processing = FALSE
    /\ script = AnyRequests /\ InitStoreVars /\ InitScoringVars
    /\ InitSearchVars

SpecTools == InitTools /\ [][NextTools]_vars

\* WatcherConfig() with no argument but the directories
WatcherConfigDefaults ==
    [debounce_delay_ms |-> 500, batch_processing |-> TRUE,
     batch_delay_ms |-> 1000]

\* _handle_event_async: the mode of the configuration decides
HandleEventAsync(p, ty) ==
    IF batch_processing THEN HandleWithBatching(p, ty)
    ELSE HandleWithDebouncing(p, ty)

\* a watcher built from the default configuration; the tasks that run are
\* those of the mode it is in
NextDefault ==
    \/ Tick
    \/ \E p \in Paths, ty \in EventTypes : HandleEventAsync(p, ty)
    \/ ProcessBatchStart
    \/ ProcessBatchWake
    \/ \E ok \in BOOLEAN : ProcessBatchCallbackDone(ok)

InitDefault ==
    /\ InitWatcherVars
    /\ batch_processing = WatcherConfigDefaults.batch_processing
    /\ script = AnyRequests /\ InitStoreVars /\ InitScoringVars
    /\ InitSearchVars

SpecDefault == InitDefault /\ [][NextDefault]_vars

SpecDebounce == InitDebounce /\ [][NextDebounce]_vars

SpecBatch == InitBatch /\ [][NextBatch]_vars

SpecStore == InitStore /\ [][NextStore]_vars

SpecDeleteRace == InitDeleteRace /\ [][NextStore]_vars

SpecCreateRace == InitCreateRace /\ [][NextCreateRace]_vars

SpecIngestRace == InitIngestRace /\ [][NextStore]_vars

SpecSearchRace == InitSearchRace /\ [][NextSearchRace]_vars

SpecScoring == InitScoring /\ [][NextScoring]_vars

\* searches, ingests and deletes run one at a time on a host in some zone
InitSearch ==
    /\ InitStopVars /\ InitToolVars /\ InitHostVars
    /\ clock = 0
    /\ tz \in UtcOffsets
    /\ cache = [rows |-> {}, seq |-> 0]
    /\ response = NoResponse
    /\ db = [IndexedDb EXCEPT !.search_cache = {}]
    /\ saved = EmptyDb /\ in_txn = FALSE /\ txn_owner = NoCall
    /\ calls = [t \in CallIds |-> IdleCall] /\ queue = <<>>
    /\ script = [t \in CallIds |-> {}]
    /\ InitWatcherVars /\ batch_processing = FALSE
    /\ InitScoringVars

SpecSearch == InitSearch /\ [][NextSearch]_vars

(***************************************************************************)
(* Watcher: observations used by the properties                            *)
(***************************************************************************)
Last(s) == s[Len(s)]

\* the accepted events on path p, in arrival order
EventsOn(p) == SelectSeq(accepted, LAMBDA e : e.file_path = p)

\* the callback invocations for path p, in order
DispatchedOn(p) == SelectSeq(dispatched, LAMBDA d : d.ev.file_path = p)

\* each event arrives less than debounce_ms after the previous one
IsBurst(s) ==
    \A i \in 1..(Len(s) - 1) : s[i + 1].timestamp - s[i].timestamp < DebounceDelay

\* no _debounced_process task for p is still to run
DebounceQuiet(p) ==
    \A t \in TaskIds : tasks[t].st \in {"unused", "done"} \/ tasks[t].key # p

\* C1: in debounced mode a burst of N >= 1 events on one path (each less than
\* debounce_ms after the previous one) leads to exactly one callback
\* invocation for the path, and it carries the last event of the burst.
\* Stated at the end of the burst: once no debounce task of the path is left.
C1_BurstDispatchedOnce ==
    \A p \in Paths :
        (EventsOn(p) # <<>> /\ IsBurst(EventsOn(p)) /\ DebounceQuiet(p))
            => /\ Len(DispatchedOn(p)) = 1
               /\ DispatchedOn(p)[1].ev = Last(EventsOn(p))

(***************************************************************************)
(* Batched mode: properties                                                *)
(***************************************************************************)
\* the latest of the first n accepted events that is on path p
LatestOn(p, n) ==
    LET I == {i \in 1..n : accepted[i].file_path = p}
    IN accepted[CHOOSE i \in I : \A j \in I : j <= i]

\* accepted event i arrived within the batch window of pass k: not before
\* the event that armed the timer and less than batch_ms after it
InWindow(i, k) ==
    /\ i >= passLog[k].armIdx
    /\ accepted[i].timestamp < passLog[k].armTs + BatchDelay

\* C6: in batched mode the events that arrive within one batch window are
\* dispatched in exactly one pass, and a pass invokes the callback at most
\* once per path, with the latest event recorded for the path.
C6_BatchWindowOnePass ==
    /\ \A i, j \in 1..Len(dispatched) :
          (i < j /\ dispatched[i].pass = dispatched[j].pass)
              => dispatched[i].ev.file_path # dispatched[j].ev.file_path
    /\ \A k \in 1..Len(passLog) : \A i \in 1..Len(accepted) :
          InWindow(i, k) =>
              /\ i <= passLog[k].fireIdx
              /\ \A d \in 1..Len(dispatched) :
                    dispatched[d].ev.seq = i => dispatched[d].pass = k
              /\ passLog[k].complete =>
                    \E d \in 1..Len(dispatched) :
                        /\ dispatched[d].pass = k
                        /\ dispatched[d].ev =
                              LatestOn(accepted[i].file_path, passLog[k].fireIdx)

\* a completed pass whose window held two events on one path and an event
\* on another path
C6_Witness ==
    \E k \in 1..Len(passLog) :
        /\ passLog[k].complete
        /\ \E i, j, l \in 1..Len(accepted) :
              /\ i < j
              /\ InWindow(i, k) /\ InWindow(j, k) /\ InWindow(l, k)
              /\ accepted[i].file_path = accepted[j].file_path
              /\ accepted[l].file_path # accepted[i].file_path
        /\ Cardinality({d \in 1..Len(dispatched) : dispatched[d].pass = k}) = 2

(***************************************************************************)
(* Store: observations used by the properties                              *)
(***************************************************************************)
\* a search_index row without the bookkeeping of who wrote it
Strip(r) == [document_id |-> r.document_id, keyword |-> r.keyword,
             frequency |-> r.frequency, positions |-> r.positions,
             num |-> r.num, den |-> r.den]

\* the index rows that tokenizing the content yields for the document
DerivedRows(document_id, content) ==
    LET es == SearchEntries(document_id, content, NoCall)
    IN {Strip(es[i]) : i \in 1..Len(es)}

StoredRows(d, document_id) ==
    {Strip(r) : r \in {x \in d.search_index : x.document_id = document_id}}

Started == {t \in CallIds : calls[t].kind # "idle"}

AllReturned == \A t \in Started : calls[t].stage = "done"

\* C2: a multi-statement write group run through the transaction primitive
\* is atomic, also when other coroutines use the pooled connection: if a
\* statement of the group fails none of its writes is visible afterwards,
\* and if the group completes all of them are.
C2_WriteGroupAtomic ==
    \A t \in CallIds :
        /\ calls[t].outcome = "rolled_back" =>
              RowsBy(db, t) = {} /\ RowsBy(Committed, t) = {}
        /\ calls[t].outcome # "lost"

\* C4: the index rows of a document are written in the same transaction as
\* its content: the store is never observed holding a document whose index
\* rows are those of an older content, or missing. Stated for the runs in
\* which documents are only created and updated.
C4_IndexCommittedWithContent ==
    (\A t \in CallIds : calls[t].kind # "delete") =>
        \A r \in Committed.documents :
            StoredRows(Committed, r.id) = DerivedRows(r.id, r.content)

\* C5: when a tool invocation times out, the transaction it had in flight
\* is rolled back: the connection is left with no open transaction of the
\* call and none of the rows it wrote there is committed.
C5_TimeoutRollsBack ==
    \A t \in CallIds :
        calls[t].result = "timeout" =>
            /\ ~(in_txn /\ txn_owner = t)
            /\ calls[t].outcome = "none" => RowsBy(Committed, t) = {}

UniquePaths(d) ==
    \A r1, r2 \in d.documents : r1.file_path = r2.file_path => r1 = r2

\* C7: file_path is unique among the stored documents at all times, also
\* while two ingests of the same new path run concurrently.
C7_FilePathUnique == UniquePaths(db) /\ UniquePaths(Committed)

\* two ingests of one new path both found no document; one has stored the
\* path and the INSERT of the other has just been rejected
C7_Witness ==
    \E t, u \in CallIds :
        /\ t # u
        /\ calls[t].kind = "index" /\ calls[u].kind = "index"
        /\ calls[t].path = calls[u].path
        /\ calls[u].stage = "doc" /\ calls[u].phase = "rollback"
        /\ calls[u].existing = 0
        /\ \E r \in db.documents :
              r.file_path = calls[t].path /\ r.id = calls[t].doc_id

\* C10: once delete_document(d) has returned success, no metadata row and
\* no index row references d.id.
C10_DeleteLeavesNoRows ==
    \A t \in CallIds :
        (calls[t].kind = "delete" /\ calls[t].result = "ok") =>
            \A d \in {db, Committed} :
                /\ \A r \in d.document_metadata : r.document_id # calls[t].target
                /\ \A r \in d.search_index : r.document_id # calls[t].target

(***************************************************************************)
(* Store: the calls run one at a time                                      *)
(***************************************************************************)
\* index_document run alone on database d for the request of call t
SeqIndex(d, t) ==
    LET c == calls[t]
        found == {r \in d.documents : r.file_path = c.path}
        old == IF found = {} THEN 0 ELSE (CHOOSE r \in found : TRUE).id
        s1 == IF old = 0 THEN InsertDocument(d, c.path, c.content)
              ELSE UpdateDocument(d, old, c.path, c.content)
        id == IF old = 0 THEN s1.n ELSE old
        s2 == BulkInsertMetadata(s1.db, id, MetadataFor(c.content))
        s3 == DeleteSearchIndex(s2.db, id)
        s4 == BulkInsertSearchIndex(s3.db, SearchEntries(id, c.content, t))
        d4 == IF s4.ok THEN s4.db ELSE s3.db
    IN [db |-> CleanupExpiredCache(d4).db, result |-> "ok", doc_id |-> id]

\* delete_document run alone on database d for the request of call t
SeqDelete(d, t) ==
    LET id == calls[t].target
        s1 == DeleteSearchIndex(d, id)
        s2 == DeleteMetadata(s1.db, id)
        s3 == DeleteDocumentRow(s2.db, id)
    IN IF s3.n > 0
       THEN [db |-> CleanupExpiredCache(s3.db).db, result |-> "ok",
             doc_id |-> id]
       ELSE [db |-> s3.db, result |-> "failed", doc_id |-> id]

RECURSIVE SeqOutcome(_, _)
\* the database and the results after running the calls of order in turn
SeqOutcome(d, order) ==
    IF order = <<>> THEN [db |-> d, res |-> {}]
    ELSE LET t == Head(order)
             o == IF calls[t].kind = "index" THEN SeqIndex(d, t)
                  ELSE SeqDelete(d, t)
             rest == SeqOutcome(o.db, Tail(order))
         IN [db |-> rest.db,
             res |-> rest.res \cup
                     {[call |-> t, result |-> o.result, doc_id |-> o.doc_id]}]

Orders(S) ==
    {o \in [1..Cardinality(S) -> S] : \A i, j \in DOMAIN o : o[i] = o[j] => i = j}

\* the call creates, updates or deletes the document stored for a.md
OnDocumentA(t) ==
    \/ calls[t].kind = "index" /\ calls[t].path = "a.md"
    \/ calls[t].kind = "delete" /\ calls[t].target = 1

\* C3: concurrent create, update and delete calls on one document are
\* linearizable: the database and the results they leave are those of the
\* same calls run one at a time in some order.
C3_Linearizable ==
    (/\ AllReturned
     /\ Cardinality(Started) >= 2
     /\ \A t \in Started : OnDocumentA(t) /\ calls[t].result # "timeout")
        => \E order \in Orders(Started) :
              LET o == SeqOutcome(IndexedDb, order)
              IN /\ o.db = db
                 /\ o.res = {[call |-> t, result |-> calls[t].result,
                              doc_id |-> calls[t].doc_id] : t \in Started}

\* C8: after a successful re-index of document d every index row stored
\* for d.id was produced by tokenizing the current content of d. Stated
\* once every call has returned, for the runs without a timeout.
C8_ReindexEntriesCurrent ==
    (AllReturned /\ \A t \in Started : calls[t].result # "timeout") =>
        \A t \in Started :
            (calls[t].kind = "index" /\ calls[t].result = "ok") =>
                \A r \in db.documents :
                    r.id = calls[t].doc_id =>
                        StoredRows(db, r.id) \subseteq
                            DerivedRows(r.id, r.content)

(***************************************************************************)
(* Scoring: properties                                                     *)
(***************************************************************************)
\* C9: the relevance of every index entry is tf * (1 + min(1, frequency/5))
\* with tf = frequency / totalWords, and lies in [0, 1].
C9_RelevanceInUnitInterval ==
    \A i \in 1..Len(search_entries) :
        LET e == search_entries[i]
        IN /\ e.num * (5 * Len(text)) =
                  e.den * (e.frequency * (5 + Min(5, e.frequency)))
           /\ 0 <= e.num /\ e.num <= e.den

(***************************************************************************)
(* Search: properties                                                      *)
(***************************************************************************)
\* the response came from the search_cache row response.entry
FromCache == response.entry.id # 0

\* what the search of the latest response would find in the store now
FreshData ==
    ResponseData(db, response.entry.query_hash[1], response.entry.query_hash[2])

C12_StalenessBoundedByTtl ==
    FromCache => response.at + tz < response.entry.expires_at

\* the documents named in the results a search_cache row stores
CachedDocuments(r) ==
    LET results == JsonLoads(r.results).results
    IN {results[i].document_id : i \in 1..Len(results)}

\* C14: after delete_document(id) has succeeded, no search_cache entry whose
\* stored results include the document remains. The documents of this
\* specification leave the store only through a successful delete.
C14_DeleteInvalidatesCache ==
    \A r \in cache.rows : CachedDocuments(r) \subseteq DocIds(db)

\* the response data searchDocuments builds when it runs alone on store d
AloneData(d) == ResponseData(d, QueryTerm, 10)

\* C13: a search that runs while a document is written observes the
\* complete store before the write or the complete store after it, never
\* a state in between. Stated for the runs of one index_document call and
\* no timeout, once the search has read all it reads.
C13_SearchSeesWholeWrite ==
    \A w, q \in CallIds :
        (/\ calls[w].kind = "index" /\ calls[q].kind = "query"
         /\ \A t \in Started : calls[t].result # "timeout"
                                  /\ ~calls[t].cancelled
         /\ calls[q].stage \in {"store", "done"}
         /\ calls[q].seen # <<>>)
            => \/ calls[q].seen = AloneData(IndexedDb)
               \/ calls[q].seen =
                      AloneData(IndexDocumentAlone(IndexedDb, calls[w].path,
                                                   calls[w].content).db)

\* the index_document calls that have returned a document id
Indexed == {t \in CallIds : calls[t].kind = "index" /\ calls[t].result = "ok"}

\* C15: a document is created once per path: ingesting a path again never
\* creates a second document and never changes its id, so every successful
\* index_document of the path returns the id given at the first insert.
\* Stated for the runs in which no document is deleted.
C15_OneDocumentPerPath ==
    (\A t \in CallIds : calls[t].kind # "delete") =>
        /\ UniquePaths(db)
        /\ \A r \in db.documents : r.file_path = "a.md" => r.id = 1
        /\ \A t \in Indexed :
               /\ \A u \in Indexed :
                      calls[u].path = calls[t].path =>
                          calls[u].doc_id = calls[t].doc_id
               /\ \A r \in Committed.documents :
                      r.file_path = calls[t].path => r.id = calls[t].doc_id
               /\ \E r \in Committed.documents :
                      r.file_path = calls[t].path

\* a path that already has a committed document has been ingested again,
\* by a call that found the document, and the call has returned its id
C15_Witness ==
    \E t, u \in Indexed :
        /\ t # u
        /\ calls[t].path = "b.md" /\ calls[u].path = "b.md"
        /\ calls[t].doc_id = 2 /\ calls[u].doc_id = 2

\* the key/value pairs stored for document id
StoredMetadata(d, id) ==
    {[key |-> x.key, value |-> x.value] :
        x \in {y \in d.document_metadata : y.document_id = id}}

\* C16: after a re-index of document d its metadata rows are exactly the
\* key/value pairs of the new parse; no key of the previous version alone
\* remains.
C16_MetadataRewrittenOnReindex ==
    \A r \in db.documents : StoredMetadata(db, r.id) = MetadataFor(r.content)

(***************************************************************************)
(* FileWatcher.stop: properties                                            *)
(***************************************************************************)
DispatchedEvents == {dispatched[i].ev : i \in 1..Len(dispatched)}

\* C17: once stop() has returned, every event that was pending when stop()
\* was called (waiting for its debounce timer, or queued in the current
\* batch) has been dispatched to the callback
C17_StopFlushesPending ==
    stop.pc = "stopped" => stop.pending \subseteq DispatchedEvents

(***************************************************************************)
(* Tool calls: properties                                                  *)
(***************************************************************************)
\* C18: a tool handler never runs for longer than the per-tool timeout:
\* every invocation of a handler is cut off at timeout_seconds
C18_HandlerBoundedByTimeout ==
    invocation.pc = "handler" => invocation.elapsed <= timeout_seconds

\* the arguments pass the schema: what validate_parameters checks and the
\* membership of every value in the enum of its property
PassesSchema(schema, arguments) ==
    /\ ValidateParameters(schema, arguments)
    /\ \A a \in DOMAIN arguments :
          (arguments[a] # Absent /\ "enum" \in schema.properties[a].has)
             => arguments[a].val \in schema.properties[a].enum

\* C19: a handler runs only on parameters that passed the validation of
\* the schema of its tool, membership in the enums included
C19_HandlerOnlyAfterValidation ==
    invocation.pc = "handler" =>
        PassesSchema(ParameterSchema(invocation.name), invocation.arguments)

\* C20: a call through the server that failed (unknown tool, validation,
\* timeout, handler exception, store error) has an error response with a
\* message, and no exception left through the transport
C20_FailuresAreErrorResponses ==
    (/\ invocation.route = "server"
     /\ invocation.pc = "responded"
     /\ invocation.failure # "none")
        => /\ invocation.response.isError
           /\ invocation.response.text # <<>>
           /\ invocation.response.raised = "none"

C20_Witness ==
    /\ invocation.route = "server"
    /\ invocation.pc = "responded"
    /\ invocation.failure = "handler exception"
    /\ invocation.response.isError

(***************************************************************************)
(* FileWatcher._handle_file_event: properties                              *)
(***************************************************************************)
\* C21: once a dispatch has failed (the ingest, update or removal done for
\* the event raised or reported failure), the error counter of the watcher
\* is greater than zero
C21_FailedDispatchCounted ==
    handled.failed => stats.indexing_errors > 0

\* C23: after a deleted event for a path that had a document in the store
\* has been dispatched, no document with that path is in the store
C23_DeletedEventRemovesDocument ==
    (handled.last.event_type = "deleted" /\ handled.last.had)
        => \A r \in db.documents : r.file_path # handled.last.file_path

(***************************************************************************)
(* Watcher: failures in a batch, the quiet interval, the default mode      *)
(***************************************************************************)
\* C22: whatever the callback of one event of a batch does (return or
\* raise), the loop goes on to the next event of the same batch, which is
\* dispatched to the callback
C22_FailureDoesNotAbortBatch ==
    [][(/\ batch_task.st = "running"
        /\ batch_task' # batch_task
        /\ Len(batch_task.queue) > 1)
          => /\ batch_task'.st = "running"
             /\ batch_task'.queue = Tail(batch_task.queue)
             /\ dispatched' = Append(dispatched,
                    [ev |-> batch_task.queue[2], pass |-> Len(passLog)])]_vars

\* a callback of the running batch has failed and the next event of the
\* same batch has been dispatched
C22_Witness ==
    /\ batch_task.st = "running"
    /\ Len(dispatched) >= 2
    /\ dispatched[Len(dispatched)].pass = dispatched[Len(dispatched) - 1].pass
    /\ processed < Len(dispatched) - 1

\* C24: in debounced mode a dispatch for a path happens no earlier than
\* the debounce delay after every event accepted so far on that path
C24_DispatchAfterQuietInterval ==
    [][Len(dispatched') > Len(dispatched)
          => LET e == dispatched'[Len(dispatched')].ev
             IN \A i \in 1..Len(accepted) :
                   accepted[i].file_path = e.file_path
                      => now >= accepted[i].timestamp + DebounceDelay]_vars

\* C25: a watcher configured without a coalescing mode is in debounced
\* mode: its events wait in _pending_events for their debounce timer and
\* are dispatched by a debounce task, never through a batch
C25_DefaultIsDebounced ==
    /\ batch_events = <<>>
    /\ \A i \in 1..Len(dispatched) : dispatched[i].pass = 0

(***************************************************************************)
(* Migrations: properties                                                  *)
(***************************************************************************)
\* C26: when migrate_to_latest has returned True, the migrations it applied
\* are exactly the registered ones above the version stored at its start, in
\* ascending order, each has its row in schema_migrations, and user_version
\* is the highest registered version; after each of them user_version is
\* its version
C26_LatestAppliesPending ==
    (migration.op = "latest" /\ migration.result \in {"running", "ok"}) =>
        /\ migration.done # <<>> =>
               database_file.user_version
                   = migration.done[Len(migration.done)]
        /\ migration.result = "ok" =>
               /\ migration.done
                      = Sorted({version \in Migrations :
                                  version > migration.start_version})
               /\ \A i \in 1..Len(migration.done) :
                      migration.done[i] \in database_file.log
               /\ database_file.user_version \in Migrations
               /\ \A version \in Migrations :
                      version <= database_file.user_version

\* migrate_to_latest found version 1 stored and returned True after
\* applying migration 2
C26_Witness ==
    /\ migration.op = "latest" /\ migration.result = "ok"
    /\ migration.start_version = 1 /\ migration.done = <<2>>

\* C27: when apply_migration or rollback_migration has returned False, the
\* schema objects, the rows of schema_migrations and user_version are what
\* they were when it was called
C27_FailedMigrationRolledBack ==
    migration.result = "failed" => database_file = migration.before

\* C28: no connect, migration run or restart makes user_version smaller
C28_VersionNeverDecreases ==
    [][database_file'.user_version >= database_file.user_version]_vars

(***************************************************************************)
(* Store: create_document from coroutines running together                 *)
(***************************************************************************)
\* C29: every create_document call of the gathered coroutines, each for a
\* path of its own, returns a positive id that no other call returned, and
\* its document is stored under that id
C29_ConcurrentCreatesSucceed ==
    \A t \in CallIds :
        (calls[t].kind = "create" /\ calls[t].stage = "done") =>
            /\ calls[t].result = "ok"
            /\ calls[t].doc_id > 0
            /\ \E r \in db.documents :
                   r.id = calls[t].doc_id /\ r.file_path = calls[t].path
            /\ \A u \in CallIds \ {t} :
                   (calls[u].kind = "create" /\ calls[u].stage = "done")
                       => calls[u].doc_id # calls[t].doc_id

(***************************************************************************)
(* The connection pool: properties                                         *)
(***************************************************************************)
\* C30: the callers using a connection they got from the manager are never
\* more than its max_connections
C30_PoolAdmitsUpToCeiling ==
    connection_manager.created =>
        Cardinality({caller \in Callers : pool_users[caller] # "none"})
            <= connection_manager.max_connections

(***************************************************************************)
(* MyDocsMCPServer: properties                                             *)
(***************************************************************************)
\* C31: when stop() has returned, the watcher is stopped and the pooled
\* connection is closed
C31_StopClosesPool ==
    server.pc = "stopped" =>
        /\ server.file_watcher = "none"
        /\ ~db_connection.connected

\* C39: of the requests that found the tools not initialized, one
\* registration of each core tool succeeded and none was answered with an
\* error
C39_ConcurrentInitialization ==
    /\ \A name \in CoreTools : server.registered[name] <= 1
    /\ server.tools_registered =>
           \A name \in CoreTools : server.registered[name] = 1
    /\ \A r \in 1..MaxRequests : ~requests[r].isError

(***************************************************************************)
(* IndexDocumentTool._execute_tool with the files it reads, and the        *)
(* searches that follow                                                    *)
(***************************************************************************)
\* the file is written: new content, st_mtime is the time of the write,
\* which is later than the modified_at of an ingest that was stored before
FileWritten(path, content) ==
    /\ files[path].content # content
    /\ ingest.modified_at[path] < LocalNow
    /\ files' = [files EXCEPT ![path] =
                    [content |-> content, st_mtime |-> LocalNow]]
    /\ UNCHANGED ingest
    /\ UNCHANGED <<watcherVars, storeVars, scoringVars, searchVars, stopVars,
                   toolVars, dispatchVars, migrationVars, poolVars,
                   besidesIngest>>

\* _execute_tool up to the end of parse_file: get_document_by_path, the
\* comparison of st_mtime with modified_at unless force_reindex, then the
\* content is read
IndexDocumentCalled(path, force_reindex) ==
    /\ ingest.pc = "idle"
    /\ LET existing_doc == \E r \in db.documents : r.file_path = path
           call == [ingest EXCEPT !.file_path = path,
                                  !.existed = existing_doc]
       IN /\ existing_doc \/ db.seq < MaxDocs
          /\ IF /\ existing_doc /\ ~force_reindex
                /\ files[path].st_mtime <= ingest.modified_at[path]
             THEN ingest' = [call EXCEPT
                     !.status = "already_indexed",
                     !.document_id =
                         (CHOOSE r \in db.documents : r.file_path = path).id,
                     !.content = <<>>]
             ELSE ingest' = [call EXCEPT !.pc = "parsed", !.status = "none",
                                         !.content = files[path].content]
    /\ UNCHANGED files
    /\ UNCHANGED <<watcherVars, storeVars, scoringVars, searchVars, stopVars,
                   toolVars, dispatchVars, migrationVars, poolVars,
                   besidesIngest>>

\* DocumentManager.index_document with the content that was read, then the
\* result of the tool: index_document returns the document id whatever
\* _index_document_keywords met, and modified_at is the time of this step
IndexDocumentStored ==
    /\ ingest.pc = "parsed"
    /\ LET stored == IndexDocumentAlone(db, ingest.file_path, ingest.content)
       IN /\ db' = stored.db
          /\ ingest' = [ingest EXCEPT
                !.pc = "idle",
                !.status = IF ingest.existed THEN "reindexed" ELSE "indexed",
                !.document_id = stored.doc_id,
                !.modified_at[ingest.file_path] = LocalNow,
                !.ingested[ingest.file_path] = ingest.content]
    /\ cache' = SweepExpired(cache)
    /\ UNCHANGED <<files, clock, tz, response>>
    /\ UNCHANGED <<saved, in_txn, txn_owner, calls, queue, script>>
    /\ UNCHANGED <<watcherVars, scoringVars, stopVars, toolVars,
                   dispatchVars, migrationVars, poolVars, besidesIngest>>

\* the clock between the steps above
TimePasses == clock < MaxIngestClock /\ Advance(1)

NextIngest ==
    \/ \E content \in {DocA, DocC} : FileWritten("a.md", content)
    \/ \E path \in {"a.md", "b.md"}, force_reindex \in BOOLEAN :
          IndexDocumentCalled(path, force_reindex)
    \/ IndexDocumentStored
    \/ \E term \in Terms, limit \in Limits : SearchDocuments(term, limit)
    \/ TimePasses

InitIngest ==
    /\ InitStopVars /\ InitToolVars /\ InitHostVars
    /\ clock = 0 /\ tz = 0
    /\ cache = [rows |-> {}, seq |-> 0]
    /\ response = NoResponse
    /\ db = [IndexedDb EXCEPT !.search_cache = {}]
    /\ saved = EmptyDb /\ in_txn = FALSE /\ txn_owner = NoCall
    /\ calls = [t \in CallIds |-> IdleCall] /\ queue = <<>>
    /\ script = AnyRequests
    /\ InitWatcherVars /\ batch_processing = FALSE /\ InitScoringVars

SpecIngest == InitIngest /\ [][NextIngest]_vars

(***************************************************************************)
(* Watcher intake: on_created and its siblings -> _queue_event ->          *)
(* _handle_event_async, in either mode, for a watcher that is not stopped  *)
(***************************************************************************)
\* _queue_event for an event that passed _should_process_event, called in
\* the given thread: asyncio.get_event_loop() raises RuntimeError in a
\* thread that has no event loop, as the observer thread of watchdog, and
\* the event is logged and forgotten; in the thread of the loop the task
\* for _handle_event_async is created
QueueEvent(p, ty, thread) ==
    IF thread = "observer"
    THEN /\ Len(unqueued) < MaxUnqueued
         /\ ty = "modified"
         /\ unqueued' = Append(unqueued,
                               [file_path |-> p, after |-> Len(accepted)])
         /\ UNCHANGED <<watcherVars, storeVars, scoringVars, searchVars,
                        stopVars, toolVars, dispatchVars, migrationVars,
                        poolVars, besidesIntake>>
    ELSE HandleEventAsync(p, ty)

\* time goes on after the last event while a timer is still to fire
TickOn ==
    /\ now >= MaxTime
    /\ \/ \E t \in TaskIds : tasks[t].st = "sleeping" /\ tasks[t].wake > now
       \/ batch_task.st = "sleeping" /\ batch_task.wake > now
    /\ now' = now + 1
    /\ UNCHANGED <<batch_processing, pending_events, debounce_tasks, tasks,
                   batch_events, batch_task, processed, accepted, dispatched,
                   passLog>>
    /\ UNCHANGED <<storeVars, scoringVars, searchVars, stopVars, toolVars,
                   hostVars>>

\* the steps of the tasks of the handler, which the event loop runs
DebounceTaskStep ==
    \/ \E t \in TaskIds : DebouncedProcessStart(t)
    \/ \E t \in TaskIds : DebouncedProcessWake(t)
    \/ \E t \in TaskIds, ok \in BOOLEAN : DebouncedCallbackDone(t, ok)
    \/ \E t \in TaskIds : DebouncedProcessCancelled(t)

BatchTaskStep ==
    \/ ProcessBatchStart
    \/ ProcessBatchWake
    \/ \E ok \in BOOLEAN : ProcessBatchCallbackDone(ok)

\* the loop has run every step that was ready: no task waits for its first
\* step, no sleeping task for the CancelledError it was sent
LoopIdle ==
    \A t \in TaskIds :
        /\ tasks[t].st # "new"
        /\ ~(tasks[t].st = "sleeping" /\ tasks[t].cancel)

\* asyncio timers: the clock is read when nothing is ready to run
ClockAdvances ==
    /\ LoopIdle /\ batch_task.st # "new"
    /\ Tick \/ TickOn

\* the files are written during the watch
EventArrives(p, ty, thread) ==
    /\ now <= MaxTime
    /\ QueueEvent(p, ty, thread)

NextIntake ==
    \/ ClockAdvances
    \/ \E p \in Paths, ty \in EventTypes, thread \in {"observer", "loop"} :
          EventArrives(p, ty, thread)
    \/ DebounceTaskStep
    \/ BatchTaskStep

InitIntake ==
    /\ InitWatcherVars /\ batch_processing \in BOOLEAN
    /\ script = AnyRequests /\ InitStoreVars /\ InitScoringVars
    /\ InitSearchVars

\* the event loop runs every task that is ready, its clock advances, and
\* the callback ends; nothing obliges an event to arrive
SpecIntake ==
    /\ InitIntake /\ [][NextIntake]_vars
    /\ WF_vars(ClockAdvances)
    /\ WF_vars(DebounceTaskStep)
    /\ WF_vars(BatchTaskStep)

(***************************************************************************)
(* BaseMCPTool: properties                                                 *)
(***************************************************************************)
\* C32: when no execute() is in progress, execution_count is the number of
\* execute() calls made, whatever their outcomes were
C32_ExecutionCountIsCalls ==
    metrics.pc = "idle" => metrics.execution_count = metrics.calls

(***************************************************************************)
(* FileWatcher.get_health_status: properties                               *)
(***************************************************************************)
\* C33: after events were dispatched, the answer is healthy exactly when
\* the watcher was running, no watched directory was missing and the
\* failed dispatches were fewer than a tenth of the dispatched events
C33_HealthyIffRunningAndFewErrors ==
    LET report == health.report
    IN (report.asked /\ report.at.count > 0) =>
          (report.healthy <=>
              /\ report.at.is_watching
              /\ report.at.missing = {}
              /\ 10 * report.at.errors < report.at.count)

(***************************************************************************)
(* Debounced mode: the pending-event map against the timer table           *)
(***************************************************************************)
\* no task is inside event_callback, none has a CancelledError to receive
HandlerAtRest ==
    \A t \in TaskIds :
        \/ tasks[t].st \in {"unused", "done"}
        \/ tasks[t].st \in {"new", "sleeping"} /\ ~tasks[t].cancel

\* the task is neither finished nor cancelled
LiveTask(t) ==
    /\ t # NoTask
    /\ tasks[t].st \in {"new", "sleeping", "callback"}
    /\ ~tasks[t].cancel

\* the task created by the most recent accepted event of the path
LatestTaskOf(p) ==
    LET mine == {i \in 1..Len(accepted) : accepted[i].file_path = p}
    IN IF mine = {} THEN NoTask
       ELSE CHOOSE i \in mine : \A j \in mine : j <= i

\* C40: when the handler is at rest, a path has a pending event exactly
\* when the timer table holds a live task for it, and that task is the one
\* created by the most recent accepted event of the path
C40_PendingIffLiveTimer ==
    HandlerAtRest =>
        \A p \in Paths :
            /\ pending_events[p] # NoEvent <=> LiveTask(debounce_tasks[p])
            /\ pending_events[p] # NoEvent =>
                   debounce_tasks[p] = LatestTaskOf(p)

(***************************************************************************)
(* Watcher intake: properties                                              *)
(***************************************************************************)
\* the callback was invoked with an event of the path later than event n
DispatchedFrom(p, n) ==
    \E i \in 1..Len(dispatched) :
        dispatched[i].ev.file_path = p /\ dispatched[i].ev.seq >= n

\* C34: an event that passed the filter is eventually dispatched, or a
\* later event of its path is, whether _queue_event handed it to
\* _handle_event_async or not
C34_AcceptedEventuallyDispatched ==
    /\ \A n \in 1..MaxEvents :
          (Len(accepted) >= n) ~>
              (Len(accepted) >= n /\ DispatchedFrom(accepted[n].file_path, n))
    /\ \A k \in 1..MaxUnqueued :
          (Len(unqueued) >= k) ~>
              (Len(unqueued) >= k
                 /\ DispatchedFrom(unqueued[k].file_path,
                                   unqueued[k].after + 1))

(***************************************************************************)
(* FileWatcher.stop: what is left when it has returned                     *)
(***************************************************************************)
\* stop() has returned
Stopped == stop.pc = "stopped"

\* nothing is pending and no task of the handler is still to run
NothingScheduled ==
    /\ \A p \in Paths :
          pending_events[p] = NoEvent /\ debounce_tasks[p] = NoTask
    /\ batch_events = <<>>
    /\ BatchTaskIdle
    /\ \A t \in TaskIds : tasks[t].st \in {"unused", "done"}

\* C35: once stop() has returned, the maps and the timer table are empty,
\* no debounce or batch task is still scheduled, and from then on the
\* callback is not invoked and nothing becomes pending again
C35_StoppedMeansNothingScheduled ==
    /\ [](Stopped => NothingScheduled)
    /\ [][Stopped => dispatched' = dispatched /\ Stopped']_vars

(***************************************************************************)
(* IndexDocumentTool: properties                                           *)
(***************************************************************************)
\* the result of the last indexDocument call says the document was stored
IngestSucceeded ==
    ingest.pc = "idle" /\ ingest.status \in {"indexed", "reindexed"}

\* C36: indexDocument reports success (status indexed or reindexed) only
\* if the inverted-index entries and the metadata of the content it read
\* were written to the store; a failure while writing them is not
\* swallowed.
C36_SuccessMeansIndexWritten ==
    IngestSucceeded =>
        /\ StoredRows(db, ingest.document_id) =
               DerivedRows(ingest.document_id, ingest.content)
        /\ MetadataFor(ingest.content) \subseteq
               StoredMetadata(db, ingest.document_id)

\* a searchDocuments call is the step that changes the cache and leaves
\* the ingest alone
SearchStep == cache' # cache /\ ingest' = ingest

KeywordsIn(content) ==
    LET kws == ExtractKeywords(content)
    IN {kws[i].keyword : i \in 1..Len(kws)}

\* C37: after indexDocument returned success for a file, every later
\* searchDocuments call for a keyword of the content that was ingested
\* returns the document, also when the same search was executed and cached
\* before the ingest.
C37_SearchFindsIngested ==
    [][SearchStep =>
         LET data == response'.data
         IN \A path \in DOMAIN ingest.ingested :
               data.query_processed \in KeywordsIn(ingest.ingested[path]) =>
                   \E i \in 1..Len(data.results) :
                       data.results[i].file_path = path]_vars

\* the content stored for the document at path
StoredContent(path) ==
    (CHOOSE r \in db.documents : r.file_path = path).content

\* an indexDocument call that returns already_indexed
ReturnsAlreadyIndexed ==
    /\ ingest.pc = "idle" /\ ingest'.pc = "idle" /\ ingest' # ingest
    /\ ingest'.status = "already_indexed"

\* C38: indexDocument returns already_indexed only if the stored content of
\* the document is the content the file has now; a file modified after its
\* content was read for the last ingest is never reported as up to date.
C38_AlreadyIndexedMeansCurrent ==
    [][ReturnsAlreadyIndexed =>
         StoredContent(ingest'.file_path) =
            files[ingest'.file_path].content]_vars

====
